---- MODULE Spec2Model ----
(***************************************************************************)
(* EPUB-to-ZIP converter: the name sequencer (NameProcessor) and the       *)
(* conversion pipeline (EpubToZipApp / FileHandler).                       *)
(*                                                                         *)
(* File names are TLA+ strings; a character is a string of length 1.       *)
(* Indices of the JavaScript source are 0-based; SubSeq is 1-based, so     *)
(* the character at JavaScript index i is CharAt(s, i + 1).                *)
(***************************************************************************)
EXTENDS Integers, Sequences, FiniteSets, TLC

(***************************************************************************)
(* Bounds of the model                                                     *)
(***************************************************************************)
\* largest batch handed to the NameProcessor in SpecNames
MaxBatch == 3

\* longest "core" of a stripped name in SpecScore, over ScoreAlphabet
MaxCore == 4

\* most filler characters put around a core in SpecScore
MaxFill == 7

\* most file objects created in a session (Spec)
MaxFiles == 2

\* most pipelines the model lets run at once (Spec)
MaxPipelines == 2

\* batch sizes 1..MaxPadSmall are enumerated in SpecPad beside the
\* sizes around the powers of ten
MaxPadSmall == 12

\* largest maxConcurrentTasks handed to setConfig (SpecConfig)
MaxSetting == 2

\* most images handed to generateZipFromImages (SpecZip)
MaxImages == 3

\* most files in one selection (SpecSelect)
MaxSelection == 2

\* most generateMultipleZips calls that have not returned (SpecJobs)
MaxCalls == 2

\* most tasks of one generateMultipleZips call (SpecJobs)
MaxTasks == 2

\* most entries of one EPUB archive (SpecParse)
MaxEntries == 2

\* longest file name handed to extractNumbers and hashCode (SpecExtract)
MaxNameLen == 6

\* largest compression level handed to a setter (SpecLevels)
MaxLevel == 10

(***************************************************************************)
(* State                                                                   *)
(***************************************************************************)
VARIABLES
    \* NameProcessor
    sortedFiles,        \* this.sortedFiles
    lastIndex,          \* this.numberPattern.lastIndex
    \* a caller of the NameProcessor (SpecNames)
    batch,              \* the list of file objects it passes
    nameMapping,        \* what processFileNames(batch) returned last
    firstMapping,       \* what processFileNames(batch) returned first
    runs,               \* calls of processFileNames(batch) so far, up to 2
    between,            \* another call came between the first and the last
    preview,            \* what previewSorting(batch) returned last
    \* a stripped name under getPrimaryNumber (SpecScore)
    scoreName, scoreStage, scoreNumbers, scoreScores, scorePrimary,
    \* a position of a batch under generateOutputNames (SpecPad)
    padTotal, padIndex, padName,
    \* FileHandler
    selectedFiles,      \* the ids of this.selectedFiles, in insertion order
    fileObjs,           \* the file objects ever created, by id
    \* EpubToZipApp
    isProcessing,       \* this.isProcessing
    processedResults,   \* this.processedResults, in insertion order
    pipelines,          \* the startProcessing calls suspended at an await
    notice,             \* the last notification EpubToZipApp showed
    config,             \* this.config
    \* ZipGenerator
    maxConcurrentJobs,  \* this.maxConcurrentJobs
    archive,            \* what the last createArchive call came to
    \* a generateZipFromImages call (SpecZip)
    zipImages,          \* the file names of its images
    zipEntries,         \* the entry names of its JSZip instance, in insertion order
    zipStage,           \* "adding", "compressing" or "failed"
    \* the user
    selection,          \* the files of the last handleFileSelect call
    \* generateMultipleZips calls (SpecJobs)
    currentJobs, zipCalls,
    \* a parseEpub call and the job of processBatch around it (SpecParse)
    epub, parseResult, parseJob,
    \* FileHandler.eventListeners holds the listeners of the application
    listening,
    \* ZipGenerator.compressionLevel
    compressionLevel,
    \* the browser
    download            \* what the last downloadAllResults call handed to downloadBlob

npVars == <<sortedFiles, lastIndex>>

callerVars == <<batch, nameMapping, firstMapping, runs, between, preview>>

scoreVars == <<scoreName, scoreStage, scoreNumbers, scoreScores, scorePrimary>>

padVars == <<padTotal, padIndex, padName>>

appVars == <<selectedFiles, fileObjs, isProcessing, processedResults, pipelines, notice>>

settingVars == <<config, maxConcurrentJobs>>

outputVars == <<archive, download>>

zipVars == <<zipImages, zipEntries, zipStage>>

userVars == <<selection>>

levelVars == <<compressionLevel>>

listenerVars == <<listening>>

parseVars == <<epub, parseResult, parseJob>>

jobVars == <<currentJobs, zipCalls>>

vars ==
    <<npVars, callerVars, scoreVars, padVars, appVars, settingVars, outputVars, zipVars, jobVars, parseVars, listenerVars, levelVars, userVars>>

(***************************************************************************)
(* Strings                                                                 *)
(***************************************************************************)
Min(S) == CHOOSE x \in S : \A y \in S : x <= y

Max(S) == CHOOSE x \in S : \A y \in S : x >= y

CharAt(s, i) == SubSeq(s, i, i)

Digits == <<"0", "1", "2", "3", "4", "5", "6", "7", "8", "9">>

DigitSet == {Digits[k] : k \in 1..10}

DigitTable == [c \in DigitSet |-> (CHOOSE k \in 1..10 : Digits[k] = c) - 1]

IsDigit(c) == c \in DigitSet

DigitVal(c) == DigitTable[c]

\* runs of ASCII characters in code order: "(" is 40, "A" is 65, "a" is 97
AsciiFrom40 == "()*+,-./0123456789"

AsciiFrom65 == "ABCDEFGHIJKLMNOPQRSTUVWXYZ["

AsciiFrom97 == "abcdefghijklmnopqrstuvwxyz"

IndexIn(str, c) == CHOOSE k \in 1..Len(str) : CharAt(str, k) = c

Occurs(str, c) == \E k \in 1..Len(str) : CharAt(str, k) = c

CharsOf(str) == {CharAt(str, k) : k \in 1..Len(str)}

CodeTable ==
    [c \in CharsOf(AsciiFrom40) \cup CharsOf(AsciiFrom65) \cup CharsOf(AsciiFrom97)
           \cup {" ", "]", "_"} |->
        CASE c = " " -> 32
          [] Occurs(AsciiFrom40, c) -> 39 + IndexIn(AsciiFrom40, c)
          [] Occurs(AsciiFrom65, c) -> 64 + IndexIn(AsciiFrom65, c)
          [] c = "]" -> 93
          [] c = "_" -> 95
          [] Occurs(AsciiFrom97, c) -> 96 + IndexIn(AsciiFrom97, c)]

\* String.prototype.charCodeAt for the characters the model's names use
CharCode(c) == CodeTable[c]

\* Number.prototype.toString for a non-negative integer
RECURSIVE ToStr(_)
ToStr(n) == IF n < 10 THEN Digits[n + 1] ELSE ToStr(n \div 10) \o Digits[(n % 10) + 1]

\* String.prototype.padStart(width, "0")
RECURSIVE PadStart(_, _)
PadStart(s, width) == IF Len(s) >= width THEN s ELSE PadStart("0" \o s, width)

\* parseInt(str, 10) of a run of decimal digits
RECURSIVE ParseInt(_)
ParseInt(str) ==
    IF Len(str) = 0 THEN 0
    ELSE ParseInt(SubSeq(str, 1, Len(str) - 1)) * 10 + DigitVal(CharAt(str, Len(str)))

\* filename.replace of the pattern <dot, one or more characters other than
\* slash and dot, end of input> by the empty string: the last dot is cut with
\* what follows it when at least one character follows and no slash is among them
RemoveFileExtension(filename) ==
    LET dots == {p \in 1..Len(filename) : CharAt(filename, p) = "."}
    IN  IF dots = {} THEN filename
        ELSE LET p == Max(dots)
             IN  IF p < Len(filename)
                    /\ \A q \in (p + 1)..Len(filename) : CharAt(filename, q) # "/"
                 THEN SubSeq(filename, 1, p - 1)
                 ELSE filename

(***************************************************************************)
(* NameProcessor (src/js/zipGenerator.js)                                  *)
(***************************************************************************)
\* RegExp.prototype.exec of the global pattern /(\d+)/g on str with the
\* pattern's lastIndex at li: the leftmost maximal run of digits starting at
\* or after li; no match sets lastIndex back to 0
RegexExec(str, li) ==
    LET starts == {i \in li..(Len(str) - 1) : IsDigit(CharAt(str, i + 1))}
    IN  IF starts = {} THEN [found |-> FALSE, lastIndex |-> 0]
        ELSE LET i == Min(starts)
                 ends == {e \in (i + 1)..Len(str) :
                             /\ \A k \in (i + 1)..e : IsDigit(CharAt(str, k))
                             /\ (e = Len(str) \/ ~IsDigit(CharAt(str, e + 1)))}
                 e == Min(ends)
             IN  [found |-> TRUE, index |-> i, text |-> SubSeq(str, i + 1, e),
                  lastIndex |-> e]

\* the while loop of extractNumbers: exec until it returns null
RECURSIVE ScanNumbers(_, _, _)
ScanNumbers(fileName, li, numbers) ==
    LET match == RegexExec(fileName, li)
    IN  IF ~match.found THEN [numbers |-> numbers, lastIndex |-> match.lastIndex]
        ELSE ScanNumbers(fileName, match.lastIndex,
                 Append(numbers, [value |-> ParseInt(match.text),
                                  originalString |-> match.text,
                                  index |-> match.index,
                                  length |-> Len(match.text)]))

\* one step of hashCode's loop on the 32-bit hash kept as <<high, low>> 16-bit
\* halves of its two's complement: hash = ((hash << 5) - hash) + char; hash & hash
HashStep(h, code) ==
    LET t == h[2] * 31 + code
    IN  <<(h[1] * 31 + (t \div 65536)) % 65536, t % 65536>>

RECURSIVE HashFold(_, _, _)
HashFold(str, i, h) ==
    IF i > Len(str) THEN h ELSE HashFold(str, i + 1, HashStep(h, CharCode(CharAt(str, i))))

\* the folded 32-bit signed hash without Math.abs
HashCodeSigned(str) ==
    LET h == HashFold(str, 1, <<0, 0>>)
    IN  IF h[1] < 32768 THEN h[1] * 65536 + h[2]
        ELSE 0 - ((65535 - h[1]) * 65536 + (65536 - h[2]))

\* hashCode: Math.abs of the folded 32-bit signed hash
HashCode(str) ==
    LET h == HashFold(str, 1, <<0, 0>>)
    IN  IF h[1] < 32768 THEN h[1] * 65536 + h[2]
        ELSE (65535 - h[1]) * 65536 + (65536 - h[2])

Separators == {"-", "_", " ", ".", "(", ")", "[", "]"}

\* the start and the end of the name taken for separators
calculateNumberScoreEdgeSeparator(numberObj, fileName) ==
    LET index == numberObj.index
        length == numberObj.length
        fileNameLength == Len(fileName)
        beforeChar == IF index > 0 THEN CharAt(fileName, index) ELSE " "
        afterChar == IF index + length < fileNameLength
                     THEN CharAt(fileName, index + length + 1) ELSE " "
    IN  (IF index = 0 \/ index + length = fileNameLength THEN 50
         ELSE IF index * 5 < fileNameLength \/ index * 5 > fileNameLength * 4 THEN 30
         ELSE 0)
      + (IF length >= 1 /\ length <= 3 THEN 30 - (length - 1) * 5 ELSE 0)
      + (IF numberObj.value <= 999 THEN Max({0, 20 - (numberObj.value \div 50)}) ELSE 0)
      + (IF beforeChar \in Separators \/ afterChar \in Separators THEN 15 ELSE 0)

\* index < fileNameLength * 0.2 and index > fileNameLength * 0.8 are taken
\* exactly (index * 5 < length, index * 5 > length * 4): for the lengths of
\* the model the double products round to the exact value
calculateNumberScore(numberObj, fileName) ==
    LET index == numberObj.index
        length == numberObj.length
        fileNameLength == Len(fileName)
        beforeChar == IF index > 0 THEN CharAt(fileName, index) ELSE ""
        afterChar == IF index + length < fileNameLength
                     THEN CharAt(fileName, index + length + 1) ELSE ""
    IN  (IF index = 0 \/ index + length = fileNameLength THEN 50
         ELSE IF index * 5 < fileNameLength \/ index * 5 > fileNameLength * 4 THEN 30
         ELSE 0)
      + (IF length >= 1 /\ length <= 3 THEN 30 - (length - 1) * 5 ELSE 0)
      + (IF numberObj.value <= 999 THEN Max({0, 20 - (numberObj.value \div 50)}) ELSE 0)
      + (IF beforeChar \in Separators \/ afterChar \in Separators THEN 15 ELSE 0)

\* the for loop of getPrimaryNumber from position i with the best so far
RECURSIVE BestNumberLastWins(_, _, _, _)
BestNumberLastWins(numbers, fileName, i, best) ==
    IF i > Len(numbers) THEN best
    ELSE BestNumberLastWins(numbers, fileName, i + 1,
             IF calculateNumberScore(numbers[i], fileName)
                    >= calculateNumberScore(best, fileName)
             THEN numbers[i] ELSE best)

RECURSIVE BestNumber(_, _, _, _)
BestNumber(numbers, fileName, i, best) ==
    IF i > Len(numbers) THEN best
    ELSE BestNumber(numbers, fileName, i + 1,
             IF calculateNumberScore(numbers[i], fileName)
                    > calculateNumberScore(best, fileName)
             THEN numbers[i] ELSE best)

getPrimaryNumberNoFallback(numbers, fileName) ==
    IF Len(numbers) = 0 THEN 0
    ELSE IF Len(numbers) = 1 THEN numbers[1].value
    ELSE BestNumber(numbers, fileName, 2, numbers[1]).value

getPrimaryNumber(numbers, fileName) ==
    IF Len(numbers) = 0 THEN HashCode(fileName)
    ELSE IF Len(numbers) = 1 THEN numbers[1].value
    ELSE BestNumber(numbers, fileName, 2, numbers[1]).value

\* the file names of the model
NamePool ==
    {"ch1.epub", "ch2.epub", "ch10.epub", "ch01.epub", "cover.epub", ".epub", "",
     "v2-ch7.epub", "ch2.EPUB"}

\* a scan of the whole name, extension included
numbersOfWholeName(name) ==
    LET scan == ScanNumbers(name, 0, <<>>)
    IN  [fileName |-> name,
         numbers |-> scan.numbers,
         primaryNumber |-> getPrimaryNumber(scan.numbers, name),
         lastIndex |-> scan.lastIndex]

\* what the map callback of extractNumbers derives from a file's name: the
\* pattern's lastIndex is reset to 0 before the scan
numbersOfName(name) ==
    LET fileName == RemoveFileExtension(name)
        scan == ScanNumbers(fileName, 0, <<>>)
    IN  [fileName |-> fileName,
         numbers |-> scan.numbers,
         primaryNumber |-> getPrimaryNumber(scan.numbers, fileName),
         lastIndex |-> scan.lastIndex]

\* numbersOfName on the names of the model, evaluated once
NumbersTable == [name \in NamePool |-> numbersOfName(name)]

numbersOf(name) == IF name \in NamePool THEN NumbersTable[name] ELSE numbersOfName(name)

\* extractNumbers: files.map
extractNumbers(files) ==
    [i \in 1..Len(files) |->
        [id |-> files[i].id,
         name |-> files[i].name,
         size |-> files[i].size,
         fileName |-> numbersOf(files[i].name).fileName,
         numbers |-> numbersOf(files[i].name).numbers,
         primaryNumber |-> numbersOf(files[i].name).primaryNumber,
         originalIndex |-> i - 1]]

\* the pattern's lastIndex when extractNumbers returns: that of the last scan
LastIndexAfter(files, li) ==
    IF Len(files) = 0 THEN li ELSE numbersOf(files[Len(files)].name).lastIndex

\* Collation order of the punctuation the model's names use (CLDR root order,
\* which zh-CN keeps for these characters): all of it sorts before the
\* digits, and the digits before the letters
CollationPunctuation == " _-,.()[]*/+"

\* The collation elements of str under localeCompare(.., 'zh-CN', {numeric:
\* true}), from 1-based position i: one element <<class, weight>> per
\* punctuation character (class 0) and per lowercase letter (class 2), and one
\* per maximal run of digits (class 1) weighing its numeric value, so that
\* leading zeros make no difference
RECURSIVE CollationElements(_, _)
CollationElements(str, i) ==
    IF i > Len(str) THEN <<>>
    ELSE LET c == CharAt(str, i)
         IN  IF IsDigit(c)
             THEN LET run == RegexExec(str, i - 1)
                  IN  <<(<<1, ParseInt(run.text)>>)>> \o CollationElements(str, run.lastIndex + 1)
             ELSE IF Occurs(CollationPunctuation, c)
             THEN <<(<<0, IndexIn(CollationPunctuation, c)>>)>> \o CollationElements(str, i + 1)
             ELSE <<(<<2, IndexIn(AsciiFrom97, c)>>)>> \o CollationElements(str, i + 1)

RECURSIVE CompareElements(_, _)
CompareElements(ka, kb) ==
    IF ka = <<>> /\ kb = <<>> THEN 0
    ELSE IF ka = <<>> THEN -1
    ELSE IF kb = <<>> THEN 1
    ELSE IF Head(ka)[1] # Head(kb)[1] THEN (IF Head(ka)[1] < Head(kb)[1] THEN -1 ELSE 1)
    ELSE IF Head(ka)[2] # Head(kb)[2] THEN (IF Head(ka)[2] < Head(kb)[2] THEN -1 ELSE 1)
    ELSE CompareElements(Tail(ka), Tail(kb))

\* the collation elements of the stripped names of the model, evaluated once
CollationTable ==
    [str \in {RemoveFileExtension(name) : name \in NamePool} |-> CollationElements(str, 1)]

CollationKey(str) ==
    IF str \in DOMAIN CollationTable THEN CollationTable[str] ELSE CollationElements(str, 1)

\* a.localeCompare(b, 'zh-CN', { numeric: true }) for names of lowercase
\* letters, digits and punctuation
LocaleCompare(a, b) == CompareElements(CollationKey(a), CollationKey(b))

\* plain code-unit comparison of two strings
RECURSIVE CodeUnitCompare(_, _)
CodeUnitCompare(a, b) ==
    IF Len(a) = 0 /\ Len(b) = 0 THEN 0
    ELSE IF Len(a) = 0 THEN -1
    ELSE IF Len(b) = 0 THEN 1
    ELSE IF CharAt(a, 1) # CharAt(b, 1)
         THEN (IF CharCode(CharAt(a, 1)) < CharCode(CharAt(b, 1)) THEN -1 ELSE 1)
    ELSE CodeUnitCompare(SubSeq(a, 2, Len(a)), SubSeq(b, 2, Len(b)))

compareFilesByDigits(a, b) ==
    IF a.primaryNumber # b.primaryNumber
    THEN CodeUnitCompare(ToStr(a.primaryNumber), ToStr(b.primaryNumber))
    ELSE IF a.fileName # b.fileName THEN LocaleCompare(a.fileName, b.fileName)
    ELSE a.originalIndex - b.originalIndex

\* the comparator of sortFilesByNumbers
compareFiles(a, b) ==
    IF a.primaryNumber # b.primaryNumber THEN a.primaryNumber - b.primaryNumber
    ELSE IF a.fileName # b.fileName THEN LocaleCompare(a.fileName, b.fileName)
    ELSE a.originalIndex - b.originalIndex

\* Array.prototype.sort is stable: an element moves left past exactly the
\* elements the comparator puts after it
RECURSIVE InsertSorted(_, _)
InsertSorted(sorted, x) ==
    IF sorted = <<>> THEN <<x>>
    ELSE IF compareFiles(sorted[Len(sorted)], x) > 0
         THEN Append(InsertSorted(SubSeq(sorted, 1, Len(sorted) - 1), x), sorted[Len(sorted)])
    ELSE Append(sorted, x)

RECURSIVE SortFrom(_, _, _)
SortFrom(arr, i, sorted) ==
    IF i > Len(arr) THEN sorted ELSE SortFrom(arr, i + 1, InsertSorted(sorted, arr[i]))

sortFilesByNumbers(filesWithNumbers) == SortFrom(filesWithNumbers, 1, <<>>)

padDigitsFixed(totalFiles) == 3

\* digits = Math.max(3, totalFiles.toString().length)
padDigits(totalFiles) == Max({3, Len(ToStr(totalFiles))})

\* the output name of the file at 0-based position index of totalFiles
outputNameOf(index, totalFiles) == PadStart(ToStr(index + 1), padDigits(totalFiles)) \o ".zip"

generateOutputNamesFromZero(sorted) ==
    [i \in 1..Len(sorted) |->
        [fileId |-> sorted[i].id,
         originalName |-> sorted[i].name,
         outputName |-> outputNameOf(i - 1, Len(sorted)),
         sequenceNumber |-> i - 1,
         primaryNumber |-> sorted[i].primaryNumber]]

\* the numbering goes on after the list the last run saved
generateOutputNamesContinued(sorted) ==
    [i \in 1..Len(sorted) |->
        [fileId |-> sorted[i].id,
         originalName |-> sorted[i].name,
         outputName |-> outputNameOf(Len(sortedFiles) + i - 1, Len(sorted)),
         sequenceNumber |-> Len(sortedFiles) + i,
         primaryNumber |-> sorted[i].primaryNumber]]

generateOutputNames(sorted) ==
    [i \in 1..Len(sorted) |->
        [fileId |-> sorted[i].id,
         originalName |-> sorted[i].name,
         outputName |-> outputNameOf(i - 1, Len(sorted)),
         sequenceNumber |-> i,
         primaryNumber |-> sorted[i].primaryNumber]]

\* processFileNames: no step of the try block throws for a list of file
\* objects with string names, so the catch branch (return []) is never taken
processFileNames(files) ==
    LET sorted == sortFilesByNumbers(extractNumbers(files))
    IN  [nameMapping |-> generateOutputNames(sorted), sortedFiles |-> sorted]

\* previewSorting: the same computation, nothing saved
previewSorting(files) ==
    LET mapping == generateOutputNames(sortFilesByNumbers(extractNumbers(files)))
    IN  [i \in 1..Len(mapping) |->
            [originalName |-> mapping[i].originalName,
             outputName |-> mapping[i].outputName,
             primaryNumber |-> mapping[i].primaryNumber,
             sequenceNumber |-> mapping[i].sequenceNumber]]

(***************************************************************************)
(* Initial values                                                          *)
(***************************************************************************)
NameProcessorInit == sortedFiles = <<>> /\ lastIndex = 0

CallerIdle ==
    /\ batch = <<>> /\ nameMapping = <<>> /\ firstMapping = <<>>
    /\ runs = 0 /\ between = FALSE /\ preview = <<>>

ScoreIdle ==
    /\ scoreName = "" /\ scoreStage = "name" /\ scoreNumbers = <<>>
    /\ scoreScores = <<>> /\ scorePrimary = 0

PadIdle == padTotal = 1 /\ padIndex = 0 /\ padName = ""

NoNotice == [kind |-> "none", count |-> 0]

\* FileHandler and EpubToZipApp after construction
AppInit ==
    /\ selectedFiles = <<>>
    /\ fileObjs = <<>>
    /\ isProcessing = FALSE
    /\ processedResults = <<>>
    /\ pipelines = <<>>
    /\ notice = NoNotice

\* the configuration after init(): the ZipGenerator gets the default of the app
SettingsInit ==
    /\ config = [maxConcurrentTasks |-> 3, compressionLevel |-> 6]
    /\ maxConcurrentJobs = 3

\* no createArchive call and no download yet
NoArchive == [ok |-> FALSE, called |-> FALSE, entries |-> <<>>]

NoDownload == [kind |-> "none", name |-> "", entries |-> <<>>, results |-> <<>>]

OutputsInit == archive = NoArchive /\ download = NoDownload

\* no generateZipFromImages call under observation
ZipIdle == zipImages = <<>> /\ zipEntries = <<>> /\ zipStage = "adding"

\* no handleFileSelect call yet
NoSelection == selection = <<>>

\* setupEventListeners() has registered filesAdded, fileRemoved and filesCleared
Listening == listening = TRUE

\* the ZipGenerator after init(): setCompressionLevel(this.config.compressionLevel)
LevelInit == compressionLevel = 6

\* no parseEpub call
NoEpub == [opens |-> FALSE, mimetype |-> "missing", container |-> FALSE, entries |-> <<>>]

NoParseResult == [success |-> FALSE, error |-> "", images |-> <<>>]

ParseIdle ==
    /\ epub = NoEpub
    /\ parseResult = NoParseResult
    /\ parseJob = [pc |-> "idle", status |-> "waiting", error |-> "", stored |-> FALSE]

\* the ZipGenerator after construction: no job, no generateMultipleZips call
JobsIdle == currentJobs = 0 /\ zipCalls = <<>>

(***************************************************************************)
(* SpecNames: processFileNames, previewSorting and reset on batches        *)
(***************************************************************************)
\* the file names the batches are made of
BatchNames == NamePool \ {"v2-ch7.epub", "ch2.EPUB"}

RECURSIVE NameLists(_)
NameLists(n) ==
    IF n = 0 THEN {<<>>}
    ELSE {Append(l, name) : l \in NameLists(n - 1), name \in BatchNames}

\* file objects: the id is unique, and no two have the same name and size
FilesOf(names) ==
    [i \in 1..Len(names) |-> [id |-> i, name |-> names[i], size |-> 100 + i]]

\* a list of files that is no batch
OtherFiles == <<[id |-> 9, name |-> "v2-ch7.epub", size |-> 7]>>

Batches == UNION {{FilesOf(l) : l \in NameLists(n)} : n \in 1..MaxBatch}

NamesInit ==
    /\ NameProcessorInit
    /\ batch \in Batches
    /\ nameMapping = <<>> /\ firstMapping = <<>>
    /\ runs = 0 /\ between = FALSE /\ preview = <<>>
    /\ ScoreIdle /\ PadIdle /\ AppInit /\ SettingsInit /\ OutputsInit /\ JobsIdle /\ ParseIdle /\ ZipIdle /\ NoSelection /\ Listening /\ LevelInit

\* processFileNames(batch)
ProcessFileNames ==
    LET r == processFileNames(batch)
    IN  /\ nameMapping' = r.nameMapping
        /\ firstMapping' = IF runs = 0 THEN r.nameMapping ELSE firstMapping
        /\ runs' = IF runs = 0 THEN 1 ELSE 2
        /\ sortedFiles' = r.sortedFiles
        /\ lastIndex' = LastIndexAfter(batch, lastIndex)
        /\ UNCHANGED <<batch, between, preview, scoreVars, padVars, appVars, settingVars, outputVars, zipVars, jobVars, parseVars, listenerVars, levelVars, userVars>>

\* processFileNames on another list of files, its result dropped
ProcessOtherFiles ==
    /\ sortedFiles' = processFileNames(OtherFiles).sortedFiles
    /\ lastIndex' = LastIndexAfter(OtherFiles, lastIndex)
    /\ between' = (between \/ runs = 1)
    /\ UNCHANGED <<batch, nameMapping, firstMapping, runs, preview, scoreVars, padVars, appVars, settingVars, outputVars, zipVars, jobVars, parseVars, listenerVars, levelVars, userVars>>

\* previewSorting(batch)
PreviewSorting ==
    /\ preview' = previewSorting(batch)
    /\ lastIndex' = LastIndexAfter(batch, lastIndex)
    /\ between' = (between \/ runs = 1)
    /\ UNCHANGED <<sortedFiles, batch, nameMapping, firstMapping, runs, scoreVars, padVars, appVars, settingVars, outputVars, zipVars, jobVars, parseVars, listenerVars, levelVars, userVars>>

\* NameProcessor.reset()
ResetNameProcessor ==
    /\ sortedFiles # <<>>
    /\ sortedFiles' = <<>>
    /\ between' = (between \/ runs = 1)
    /\ UNCHANGED <<lastIndex, batch, nameMapping, firstMapping, runs, preview, scoreVars, padVars, appVars, settingVars, outputVars, zipVars, jobVars, parseVars, listenerVars, levelVars, userVars>>

NamesNext == ProcessFileNames \/ ProcessOtherFiles \/ PreviewSorting \/ ResetNameProcessor

SpecNames == NamesInit /\ [][NamesNext]_vars

(***************************************************************************)
(* SpecScore: getPrimaryNumber and calculateNumberScore on stripped names  *)
(***************************************************************************)
\* the characters of a core: a letter, a separator and two digits
ScoreAlphabet == {"a", "_", "1", "7"}

RECURSIVE Cores(_)
Cores(n) ==
    IF n = 0 THEN {""} ELSE {core \o c : core \in Cores(n - 1), c \in ScoreAlphabet}

RECURSIVE Fill(_)
Fill(n) == IF n = 0 THEN "" ELSE "b" \o Fill(n - 1)

\* a core of up to MaxCore characters with up to MaxFill letters around it
ScoreNames ==
    {Fill(p) \o core \o Fill(q) :
        core \in UNION {Cores(n) : n \in 0..MaxCore},
        p \in 0..MaxFill, q \in 0..MaxFill}

ScoreInit ==
    /\ NameProcessorInit /\ CallerIdle /\ PadIdle /\ AppInit /\ SettingsInit /\ OutputsInit /\ JobsIdle /\ ParseIdle /\ ZipIdle /\ NoSelection /\ Listening /\ LevelInit
    /\ scoreName \in {name \in ScoreNames : Len(name) <= MaxCore + MaxFill}
    /\ scoreStage = "name"
    /\ scoreNumbers = <<>>
    /\ scoreScores = <<>>
    /\ scorePrimary = 0

\* the scan of extractNumbers on the stripped name
ScanName ==
    /\ scoreStage = "name"
    /\ scoreStage' = "scanned"
    /\ scoreNumbers' = ScanNumbers(scoreName, 0, <<>>).numbers
    /\ UNCHANGED <<scoreName, scoreScores, scorePrimary, npVars, callerVars, padVars, appVars, settingVars, outputVars, zipVars, jobVars, parseVars, listenerVars, levelVars, userVars>>

\* calculateNumberScore on every token, and getPrimaryNumber
ScoreName ==
    /\ scoreStage = "scanned"
    /\ scoreStage' = "scored"
    /\ scoreScores' = [i \in 1..Len(scoreNumbers) |->
                          calculateNumberScore(scoreNumbers[i], scoreName)]
    /\ scorePrimary' = getPrimaryNumber(scoreNumbers, scoreName)
    /\ UNCHANGED <<scoreName, scoreNumbers, npVars, callerVars, padVars, appVars, settingVars, outputVars, zipVars, jobVars, parseVars, listenerVars, levelVars, userVars>>

ScoreNext == ScanName \/ ScoreName

SpecScore == ScoreInit /\ [][ScoreNext]_vars

(***************************************************************************)
(* SpecExtract: the map callback of extractNumbers on names with extensions *)
(***************************************************************************)
\* the characters of a name: a letter, two digits and the dot
ExtractAlphabet == {"a", "0", "7", "."}

RECURSIVE ExtractNames(_)
ExtractNames(n) ==
    IF n = 0 THEN {""}
    ELSE ExtractNames(n - 1) \cup
         {name \o c : name \in {x \in ExtractNames(n - 1) : Len(x) = n - 1},
                      c \in ExtractAlphabet}

ExtractInit ==
    /\ NameProcessorInit /\ CallerIdle /\ PadIdle /\ AppInit /\ SettingsInit /\ OutputsInit
    /\ JobsIdle /\ ParseIdle /\ ZipIdle /\ NoSelection /\ Listening /\ LevelInit
    /\ scoreName \in ExtractNames(MaxNameLen)
    /\ scoreStage = "name"
    /\ scoreNumbers = <<>>
    /\ scoreScores = <<>>
    /\ scorePrimary = 0

\* the map callback of extractNumbers on a file of that name
ExtractNumbers ==
    /\ scoreStage = "name"
    /\ scoreStage' = "extracted"
    /\ scoreNumbers' = numbersOfName(scoreName).numbers
    /\ scorePrimary' = numbersOfName(scoreName).primaryNumber
    /\ UNCHANGED <<scoreName, scoreScores, npVars, callerVars, padVars, appVars, settingVars,
                   outputVars, zipVars, jobVars, parseVars, listenerVars, levelVars, userVars>>

ExtractNext == ExtractNumbers

SpecExtract == ExtractInit /\ [][ExtractNext]_vars

(***************************************************************************)
(* SpecPad: the output name of a position in a batch of a given size       *)
(***************************************************************************)
\* the batch sizes: the small ones and those around the powers of ten
PadTotals == (1..MaxPadSmall) \cup {99, 100, 999, 1000}

PadInit ==
    /\ NameProcessorInit /\ CallerIdle /\ ScoreIdle /\ AppInit /\ SettingsInit /\ OutputsInit /\ JobsIdle /\ ParseIdle /\ ZipIdle /\ NoSelection /\ Listening /\ LevelInit
    /\ padTotal \in PadTotals
    /\ padIndex \in 0..(padTotal - 1)
    /\ padName = ""

\* the map callback of generateOutputNames at position padIndex
NameOutput ==
    /\ padName = ""
    /\ padName' = outputNameOf(padIndex, padTotal)
    /\ UNCHANGED <<padTotal, padIndex, npVars, callerVars, scoreVars, appVars, settingVars, outputVars, zipVars, jobVars, parseVars, listenerVars, levelVars, userVars>>

PadNext == NameOutput

SpecPad == PadInit /\ [][PadNext]_vars

(***************************************************************************)
(* Spec: FileHandler and EpubToZipApp, one session                         *)
(***************************************************************************)
\* the files the user can select
UserFiles ==
    {[name |-> "ch2.epub", size |-> 1],
     [name |-> "ch1.epub", size |-> 1]}

\* the valid files of one selection
Selections ==
    {<<f>> : f \in UserFiles}
        \cup {<<[name |-> "ch2.epub", size |-> 1], [name |-> "ch1.epub", size |-> 1]>>}

Registered(id) == \E k \in 1..Len(selectedFiles) : selectedFiles[k] = id

Without(ids, id) == SelectSeq(ids, LAMBDA x : x # id)

\* a for loop that adds every file
RECURSIVE addFilesFromAll(_, _, _)
addFilesFromAll(files, k, state) ==
    IF k > Len(files) THEN state
    ELSE addFilesFromAll(files, k + 1,
             [ids |-> Append(state.ids, Len(state.objs) + 1),
              objs |-> Append(state.objs,
                           [name |-> files[k].name, size |-> files[k].size,
                            status |-> "waiting", outputName |-> "", error |-> ""])])

\* the for loop of addFiles from position k: a file whose name and size an
\* entry of the registry has is skipped, any other gets a fresh id and the
\* status waiting
RECURSIVE addFilesFrom(_, _, _)
addFilesFrom(files, k, state) ==
    IF k > Len(files) THEN state
    ELSE IF \E j \in 1..Len(state.ids) :
                /\ state.objs[state.ids[j]].name = files[k].name
                /\ state.objs[state.ids[j]].size = files[k].size
         THEN addFilesFrom(files, k + 1, state)
    ELSE addFilesFrom(files, k + 1,
             [ids |-> Append(state.ids, Len(state.objs) + 1),
              objs |-> Append(state.objs,
                           [name |-> files[k].name, size |-> files[k].size,
                            status |-> "waiting", outputName |-> "", error |-> ""])])

\* getAllFiles(): the file objects of the registry as the NameProcessor and
\* the pipeline read them
allFiles(ids, objs) ==
    [k \in 1..Len(ids) |-> [id |-> ids[k], name |-> objs[ids[k]].name, size |-> objs[ids[k]].size]]

\* no output name is written
updateOutputNamesSkipped(ids, objs, mapping) == objs

\* the sorted files are written back over the entries, in registry order
updateOutputNamesInOrder(ids, objs, mapping) ==
    [id \in 1..Len(objs) |->
        IF \E k \in 1..Len(ids) : ids[k] = id /\ k <= Len(mapping)
        THEN LET k == CHOOSE k \in 1..Len(ids) : ids[k] = id
             IN  [objs[mapping[k].fileId] EXCEPT !.outputName = mapping[k].outputName]
        ELSE objs[id]]

\* updateOutputNames: the output name of every mapping whose file is in the registry
updateOutputNames(ids, objs, mapping) ==
    [id \in 1..Len(objs) |->
        IF \E k \in 1..Len(mapping) : mapping[k].fileId = id /\ (\E j \in 1..Len(ids) : ids[j] = id)
        THEN [objs[id] EXCEPT !.outputName =
                 mapping[CHOOSE k \in 1..Len(mapping) : mapping[k].fileId = id].outputName]
        ELSE objs[id]]

\* addFiles(files), then the filesAdded listener handleFilesAdded on all
\* files of the registry
AddValidFiles(files) ==
    LET added == addFilesFrom(files, 1, [ids |-> selectedFiles, objs |-> fileObjs])
        r == processFileNames(allFiles(added.ids, added.objs))
    IN  /\ Len(added.objs) <= MaxFiles
        /\ selectedFiles' = added.ids
        /\ fileObjs' = updateOutputNames(added.ids, added.objs, r.nameMapping)
        /\ sortedFiles' = r.sortedFiles
        /\ lastIndex' = LastIndexAfter(allFiles(added.ids, added.objs), lastIndex)
        /\ UNCHANGED <<isProcessing, processedResults, pipelines, notice,
                       callerVars, scoreVars, padVars, settingVars, outputVars, zipVars, jobVars, parseVars, listenerVars, levelVars>>

\* handleFileSelect with a non-empty list of valid files
AddFiles ==
    \E files \in Selections :
        AddValidFiles(files) /\ UNCHANGED userVars

\* a file object that neither the registry nor a running processBatch refers
\* to any more
Collected == [name |-> "", size |-> 0, status |-> "collected", outputName |-> "", error |-> ""]

\* the file objects once the registry holds ids and the batches pls run:
\* an object out of the registry and of every batch is unreachable
collect(objs, ids, pls) ==
    [id \in 1..Len(objs) |->
        IF \/ \E k \in 1..Len(ids) : ids[k] = id
           \/ \E p \in 1..Len(pls) : \E k \in 1..Len(pls[p].files) : pls[p].files[k] = id
        THEN objs[id] ELSE Collected]

\* Map.prototype.delete on the results
withoutResult(results, id) == SelectSeq(results, LAMBDA r : r.fileId # id)

\* removeFile(fileId), with the fileRemoved listener handleFileRemoved
RemoveFile ==
    \E id \in 1..Len(fileObjs) :
        /\ Registered(id)
        /\ selectedFiles' = Without(selectedFiles, id)
        /\ processedResults' = withoutResult(processedResults, id)
        /\ fileObjs' = collect(fileObjs, Without(selectedFiles, id), pipelines)
        /\ UNCHANGED <<isProcessing, pipelines, notice,
                       npVars, callerVars, scoreVars, padVars, settingVars, outputVars, zipVars, jobVars, parseVars, listenerVars, levelVars, userVars>>

\* clearAllFiles(), with the filesCleared listener handleFilesCleared
ClearAllFiles ==
    /\ selectedFiles' = <<>>
    /\ processedResults' = <<>>
    /\ sortedFiles' = <<>>
    /\ fileObjs' = collect(fileObjs, <<>>, pipelines)
    /\ UNCHANGED <<isProcessing, pipelines, notice,
                   lastIndex, callerVars, scoreVars, padVars, settingVars, outputVars, zipVars, jobVars, parseVars, listenerVars, levelVars, userVars>>

\* updateFileStatus: nothing for a file that is not in the registry
updateFileStatus(objs, id, status) ==
    IF Registered(id) THEN [objs EXCEPT ![id].status = status] ELSE objs

\* updateFileStatus(fileId, 'error', { error: message })
updateFileError(objs, id, message) ==
    IF Registered(id) THEN [objs EXCEPT ![id].status = "error", ![id].error = message]
    ELSE objs

neverBusy == FALSE

\* the guard of startProcessing and of reset: this.isProcessing
busy == isProcessing

\* startProcessing(): the busy warning, the no-file warning, or a pipeline
\* that runs processBatch up to its first await, the parse of the first file
StartProcessing ==
    IF busy
    THEN /\ notice' = [kind |-> "busy", count |-> 0]
         /\ UNCHANGED <<selectedFiles, fileObjs, isProcessing, processedResults, pipelines,
                        npVars, callerVars, scoreVars, padVars, settingVars, outputVars, zipVars, jobVars, parseVars, listenerVars, levelVars, userVars>>
    ELSE IF Len(selectedFiles) = 0
    THEN /\ notice' = [kind |-> "empty", count |-> 0]
         /\ UNCHANGED <<selectedFiles, fileObjs, isProcessing, processedResults, pipelines,
                        npVars, callerVars, scoreVars, padVars, settingVars, outputVars, zipVars, jobVars, parseVars, listenerVars, levelVars, userVars>>
    ELSE /\ Len(pipelines) < MaxPipelines
         /\ isProcessing' = TRUE
         /\ fileObjs' = updateFileStatus(fileObjs, selectedFiles[1], "processing")
         /\ pipelines' = Append(pipelines,
                             [files |-> selectedFiles, pos |-> 1, pc |-> "parse",
                              completedFiles |-> 0, successfulFiles |-> 0])
         /\ UNCHANGED <<selectedFiles, processedResults, notice,
                        npVars, callerVars, scoreVars, padVars, settingVars, outputVars, zipVars, jobVars, parseVars, listenerVars, levelVars, userVars>>

\* what parseEpub and the two checks after it come to
ParseOutcomes == {"images", "parse_failed", "no_images"}

\* processBatch resumes from await parseEpub: on to the ZIP, or the catch block
ParseDone ==
    \E p \in 1..Len(pipelines), outcome \in ParseOutcomes :
        LET pl == pipelines[p]
            id == pl.files[pl.pos]
        IN  /\ pl.pc = "parse"
            /\ IF outcome = "images"
               THEN /\ pipelines' = [pipelines EXCEPT ![p].pc = "zip"]
                    /\ UNCHANGED fileObjs
               ELSE /\ fileObjs' = updateFileError(fileObjs, id, outcome)
                    /\ pipelines' = [pipelines EXCEPT ![p].pc = "delay",
                                                      ![p].completedFiles = @ + 1]
            /\ UNCHANGED <<selectedFiles, isProcessing, processedResults, notice,
                           npVars, callerVars, scoreVars, padVars, settingVars, outputVars, zipVars, jobVars, parseVars, listenerVars, levelVars, userVars>>

\* Map.prototype.set on the results: a present key keeps its place
withResult(results, result) ==
    IF \E k \in 1..Len(results) : results[k].fileId = result.fileId
    THEN [k \in 1..Len(results) |->
             IF results[k].fileId = result.fileId THEN result ELSE results[k]]
    ELSE Append(results, result)

\* processBatch resumes from await generateZipFromImages: the result is
\* stored and the file completed, or the catch block
ZipDone ==
    \E p \in 1..Len(pipelines), outcome \in {"blob", "compression_failed"} :
        LET pl == pipelines[p]
            id == pl.files[pl.pos]
        IN  /\ pl.pc = "zip"
            /\ IF outcome = "blob"
               THEN /\ processedResults' =
                           withResult(processedResults,
                               [fileId |-> id, fileName |-> fileObjs[id].outputName,
                                originalName |-> fileObjs[id].name, success |-> TRUE])
                    /\ fileObjs' = updateFileStatus(fileObjs, id, "completed")
                    /\ pipelines' = [pipelines EXCEPT ![p].pc = "delay",
                                                      ![p].completedFiles = @ + 1,
                                                      ![p].successfulFiles = @ + 1]
               ELSE /\ fileObjs' = updateFileError(fileObjs, id, outcome)
                    /\ pipelines' = [pipelines EXCEPT ![p].pc = "delay",
                                                      ![p].completedFiles = @ + 1]
                    /\ UNCHANGED processedResults
            /\ UNCHANGED <<selectedFiles, isProcessing, notice,
                           npVars, callerVars, scoreVars, padVars, settingVars, outputVars, zipVars, jobVars, parseVars, listenerVars, levelVars, userVars>>

\* the catch block leaves the loop
moreFilesUnlessError(pl) ==
    pl.pos < Len(pl.files) /\ fileObjs[pl.files[pl.pos]].status # "error"

\* the for loop of processBatch has another file
moreFiles(pl) == pl.pos < Len(pl.files)

\* the notification of handleProcessingComplete
completionNotice(results) ==
    LET successful == SelectSeq(results, LAMBDA r : r.success)
    IN  IF Len(successful) = 0 THEN [kind |-> "no_success", count |-> 0]
        ELSE [kind |-> "done", count |-> Len(successful)]

\* the pipelines without the p-th, whose startProcessing has returned
ended(pls, p) == [k \in 1..(Len(pls) - 1) |-> IF k < p THEN pls[k] ELSE pls[k + 1]]

iterationDoneEarly(pl) == pl.pc \in {"parse", "delay"}

\* the loop body of processBatch has run to its end for the current file:
\* the pipeline waits in await Utils.delay(50)
iterationDone(pl) == pl.pc = "delay"

\* processBatch resumes from await Utils.delay(50): the next file up to its
\* parse, or the end of startProcessing
DelayDone ==
    \E p \in 1..Len(pipelines) :
        LET pl == pipelines[p]
        IN  /\ iterationDone(pl)
            /\ IF moreFiles(pl)
               THEN /\ fileObjs' = updateFileStatus(fileObjs, pl.files[pl.pos + 1], "processing")
                    /\ pipelines' = [pipelines EXCEPT ![p].pos = @ + 1, ![p].pc = "parse"]
                    /\ UNCHANGED <<isProcessing, notice>>
               ELSE /\ notice' = completionNotice(processedResults)
                    /\ isProcessing' = FALSE
                    /\ pipelines' = ended(pipelines, p)
                    /\ fileObjs' = collect(fileObjs, selectedFiles, ended(pipelines, p))
            /\ UNCHANGED <<selectedFiles, processedResults,
                           npVars, callerVars, scoreVars, padVars, settingVars, outputVars, zipVars, jobVars, parseVars, listenerVars, levelVars, userVars>>

Init == NameProcessorInit /\ CallerIdle /\ ScoreIdle /\ PadIdle /\ AppInit /\ SettingsInit /\ OutputsInit /\ JobsIdle /\ ParseIdle /\ ZipIdle /\ NoSelection /\ Listening /\ LevelInit

Next ==
    \/ AddFiles
    \/ RemoveFile
    \/ ClearAllFiles
    \/ StartProcessing
    \/ ParseDone
    \/ ZipDone
    \/ DelayDone

Spec == Init /\ [][Next]_vars

(***************************************************************************)
(* SpecConfig: a session with setConfig, without removals                  *)
(***************************************************************************)
\* the maxConcurrentTasks values handed to setConfig
TaskSettings == (-1)..MaxSetting

setMaxConcurrentJobsUnchecked(current, maxJobs) == maxJobs

\* setMaxConcurrentJobs(maxJobs): the value the ZipGenerator has afterwards
setMaxConcurrentJobs(current, maxJobs) == IF maxJobs > 0 THEN maxJobs ELSE current

\* setConfig({ maxConcurrentTasks: n }): the setter is called for a truthy n
SetConfig ==
    \E n \in TaskSettings :
        /\ config' = [config EXCEPT !.maxConcurrentTasks = n]
        /\ maxConcurrentJobs' =
               IF n # 0 THEN setMaxConcurrentJobs(maxConcurrentJobs, n) ELSE maxConcurrentJobs
        /\ UNCHANGED <<npVars, callerVars, scoreVars, padVars, appVars, outputVars, zipVars, jobVars, parseVars, listenerVars, levelVars, userVars>>

\* the archive builds in flight: the pipelines inside generateZipFromImages
jobsInFlight == Cardinality({p \in 1..Len(pipelines) : pipelines[p].pc = "zip"})

ConfigNext ==
    \/ AddFiles
    \/ StartProcessing
    \/ ParseDone
    \/ ZipDone
    \/ DelayDone
    \/ SetConfig

SpecConfig == Init /\ [][ConfigNext]_vars

(***************************************************************************)
(* SpecDownload: a session with downloads, without removals                *)
(***************************************************************************)
\* JSZip file(name, data): the entry of that name is replaced, or a new entry
\* is added at the end
zipFile(entries, name, id) ==
    IF \E k \in 1..Len(entries) : entries[k].name = name
    THEN [k \in 1..Len(entries) |->
             IF entries[k].name = name THEN [name |-> name, fileId |-> id] ELSE entries[k]]
    ELSE Append(entries, [name |-> name, fileId |-> id])

\* the for loop of createArchive from position k
RECURSIVE archiveFrom(_, _, _)
archiveFrom(results, k, entries) ==
    IF k > Len(results) THEN entries
    ELSE archiveFrom(results, k + 1, zipFile(entries, results[k].fileName, results[k].fileId))

createArchiveOfNothing(zipResults) == [ok |-> TRUE, called |-> TRUE, entries |-> <<>>]

\* createArchive(zipResults): the entries of the archive, or the error thrown
\* (a result of the model has a blob exactly when it is a success)
createArchive(zipResults) ==
    LET successfulResults == SelectSeq(zipResults, LAMBDA r : r.success)
    IN  IF Len(successfulResults) = 0
        THEN [ok |-> FALSE, called |-> TRUE, entries |-> <<>>]
        ELSE [ok |-> TRUE, called |-> TRUE, entries |-> archiveFrom(successfulResults, 1, <<>>)]

\* a result list of failures only, as generateMultipleZips returns it
FailedOnly ==
    <<[fileId |-> 0, fileName |-> "001.zip", originalName |-> "ch1.epub", success |-> FALSE]>>

\* a call of createArchive on the ZipGenerator
CreateArchive ==
    \E zipResults \in {<<>>, FailedOnly, processedResults} :
        /\ archive' = createArchive(zipResults)
        /\ UNCHANGED <<download, npVars, callerVars, scoreVars, padVars, appVars, settingVars,
                       zipVars, jobVars, parseVars, listenerVars, levelVars, userVars>>

\* downloadAllResults(): the warning, the single archive, or the wrapper
\* archive, whose entries are set before createArchive suspends
DownloadAllResults ==
    LET successfulResults == SelectSeq(processedResults, LAMBDA r : r.success)
        built == createArchive(successfulResults)
    IN  /\ IF Len(successfulResults) = 0
           THEN /\ notice' = [kind |-> "nothing_to_download", count |-> 0]
                /\ download' = NoDownload
                /\ UNCHANGED archive
           ELSE IF Len(successfulResults) = 1
           THEN /\ notice' = [kind |-> "download_started", count |-> 1]
                /\ download' = [kind |-> "single", name |-> successfulResults[1].fileName,
                                entries |-> <<>>, results |-> successfulResults]
                /\ UNCHANGED archive
           ELSE /\ archive' = built
                /\ IF built.ok
                   THEN /\ notice' = [kind |-> "download_started",
                                      count |-> Len(successfulResults)]
                        /\ download' = [kind |-> "wrapper", name |-> "epub_converted_files.zip",
                                        entries |-> built.entries,
                                        results |-> successfulResults]
                   ELSE /\ notice' = [kind |-> "download_failed", count |-> 0]
                        /\ download' = NoDownload
        /\ UNCHANGED <<selectedFiles, fileObjs, isProcessing, processedResults, pipelines,
                       npVars, callerVars, scoreVars, padVars, settingVars, zipVars, jobVars, parseVars, listenerVars, levelVars, userVars>>

DownloadNext ==
    \/ AddFiles
    \/ StartProcessing
    \/ ParseDone
    \/ ZipDone
    \/ DelayDone
    \/ CreateArchive
    \/ DownloadAllResults

SpecDownload == Init /\ [][DownloadNext]_vars

(***************************************************************************)
(* SpecZip: generateZipFromImages on lists of image names                  *)
(***************************************************************************)
\* filename.lastIndexOf('.'): the 0-based position of the last dot, or -1
LastIndexOfDot(filename) ==
    LET dots == {k \in 1..Len(filename) : CharAt(filename, k) = "."}
    IN  IF dots = {} THEN -1 ELSE Max(dots) - 1

\* Utils.getFileExtension: slice((lastIndexOf('.') - 1 >>> 0) + 2), which is
\* empty for a name without a dot and for a name whose only dot is in front
getFileExtension(filename) ==
    IF LastIndexOfDot(filename) <= 0 THEN ""
    ELSE SubSeq(filename, LastIndexOfDot(filename) + 2, Len(filename))

\* JSZip file(name): an entry of that name is there
zipHas(entries, name) == \E k \in 1..Len(entries) : entries[k] = name

\* the name the while loop of generateUniqueFileName builds for a counter
suffixedName(originalName, counter) ==
    RemoveFileExtension(originalName) \o "_" \o ToStr(counter) \o "." \o
        getFileExtension(originalName)

\* the while loop of generateUniqueFileName from a counter
RECURSIVE uniqueFrom(_, _, _, _)
uniqueFrom(entries, originalName, fileName, counter) ==
    IF zipHas(entries, fileName)
    THEN uniqueFrom(entries, originalName, suffixedName(originalName, counter), counter + 1)
    ELSE fileName

\* generateUniqueFileName(zip, originalName)
generateUniqueFileName(entries, originalName) ==
    uniqueFrom(entries, originalName, originalName, 1)

\* JSZip file(name, data) on the entry names
zipAdd(entries, name) == IF zipHas(entries, name) THEN entries ELSE Append(entries, name)

\* the image names of the model: simple, already suffixed, two dots, and an
\* extension only
ImageNames == {"image.jpg", "image_1.jpg", "a.b.png", ".jpg"}

RECURSIVE ImageLists(_)
ImageLists(n) ==
    IF n = 0 THEN {<<>>}
    ELSE {Append(l, name) : l \in ImageLists(n - 1), name \in ImageNames}

ZipInit ==
    /\ zipImages \in UNION {ImageLists(n) : n \in 0..MaxImages}
    /\ zipEntries = <<>>
    /\ zipStage = "adding"
    /\ NameProcessorInit /\ CallerIdle /\ ScoreIdle /\ PadIdle
    /\ AppInit /\ SettingsInit /\ OutputsInit /\ JobsIdle /\ ParseIdle /\ NoSelection /\ Listening /\ LevelInit

\* generateZipFromImages throws for an empty list
NoImages ==
    /\ zipStage = "adding"
    /\ Len(zipImages) = 0
    /\ zipStage' = "failed"
    /\ UNCHANGED <<zipImages, zipEntries, npVars, callerVars, scoreVars, padVars, appVars,
                   settingVars, outputVars, jobVars, parseVars, listenerVars, levelVars, userVars>>

\* one iteration of the for loop of generateZipFromImages
AddImage ==
    /\ zipStage = "adding"
    /\ Len(zipEntries) < Len(zipImages)
    /\ zipEntries' = zipAdd(zipEntries,
                            generateUniqueFileName(zipEntries, zipImages[Len(zipEntries) + 1]))
    /\ UNCHANGED <<zipImages, zipStage, npVars, callerVars, scoreVars, padVars, appVars,
                   settingVars, outputVars, jobVars, parseVars, listenerVars, levelVars, userVars>>

\* the loop is over: zip.generateAsync
Compress ==
    /\ zipStage = "adding"
    /\ Len(zipImages) > 0
    /\ Len(zipEntries) = Len(zipImages)
    /\ zipStage' = "compressing"
    /\ UNCHANGED <<zipImages, zipEntries, npVars, callerVars, scoreVars, padVars, appVars,
                   settingVars, outputVars, jobVars, parseVars, listenerVars, levelVars, userVars>>

ZipNext == NoImages \/ AddImage \/ Compress

SpecZip == ZipInit /\ [][ZipNext]_vars

(***************************************************************************)
(* SpecSelect: handleFileSelect on selections with invalid files           *)
(***************************************************************************)
\* String.prototype.toLowerCase on an ASCII character
LowerChar(c) ==
    IF Occurs(AsciiFrom65, c) /\ IndexIn(AsciiFrom65, c) <= Len(AsciiFrom97)
    THEN CharAt(AsciiFrom97, IndexIn(AsciiFrom65, c))
    ELSE c

\* String.prototype.toLowerCase on ASCII
RECURSIVE ToLowerCase(_)
ToLowerCase(str) ==
    IF Len(str) = 0 THEN ""
    ELSE LowerChar(CharAt(str, 1)) \o ToLowerCase(SubSeq(str, 2, Len(str)))

\* String.prototype.endsWith
EndsWith(str, suffix) ==
    /\ Len(str) >= Len(suffix)
    /\ SubSeq(str, Len(str) - Len(suffix) + 1, Len(str)) = suffix

\* Utils.isValidFileType(file, ['.epub'])
isValidFileType(file) == EndsWith(ToLowerCase(file.name), ".epub")

\* a validation that also asks for the ZIP signature
validateEpubFileBySignature(file) == isValidFileType(file) /\ file.size # 0 /\ file.zip

\* Utils.validateEpubFile(file): the extension, the size, and a signature
\* check whose every outcome is true
validateEpubFile(file) ==
    IF ~isValidFileType(file) THEN FALSE
    ELSE IF file.size = 0 THEN FALSE
    ELSE IF ~file.zip THEN TRUE
    ELSE TRUE

\* the files a user selects: name, size, and whether the first bytes are a
\* ZIP signature
CandidateFiles ==
    {[name |-> "ch1.epub", size |-> 1, zip |-> TRUE],
     [name |-> "ch2.EPUB", size |-> 2, zip |-> FALSE],
     [name |-> "ch3.epub", size |-> 0, zip |-> TRUE],
     [name |-> "ch4.epub.txt", size |-> 4, zip |-> TRUE]}

RECURSIVE CandidateLists(_)
CandidateLists(n) ==
    IF n = 0 THEN {<<>>}
    ELSE {Append(l, f) : l \in CandidateLists(n - 1), f \in CandidateFiles}

\* the selections of the model
CandidateSelections == UNION {CandidateLists(n) : n \in 1..MaxSelection}

\* validateEpubFile on the files of the model, evaluated once
ValidationTable == [file \in CandidateFiles |-> validateEpubFile(file)]

\* Utils.validateFiles(files): the files validateEpubFile accepts, in order
validFilesOf(files) == SelectSeq(files, LAMBDA file : ValidationTable[file])

\* handleFileSelect(files): validateFiles, then addFiles on the valid files
\* if there is one
HandleFileSelect ==
    \E files \in CandidateSelections :
        LET valid == validFilesOf(files)
        IN  /\ selection' = files
            /\ IF Len(valid) > 0
               THEN AddValidFiles([k \in 1..Len(valid) |->
                                      [name |-> valid[k].name, size |-> valid[k].size]])
               ELSE UNCHANGED <<npVars, callerVars, scoreVars, padVars, appVars, settingVars,
                                outputVars, zipVars, jobVars, parseVars, listenerVars, levelVars>>

SelectNext == HandleFileSelect \/ RemoveFile

SpecSelect == Init /\ [][SelectNext]_vars


(***************************************************************************)
(* SpecJobs: generateMultipleZips calls on one ZipGenerator                *)
(***************************************************************************)
\* waitForAvailableSlot() run to its first suspension: in the delay of its
\* loop ("wait"), or returned, which leaves the caller suspended in its await
\* with the slot seen free ("slot")
waitForAvailableSlot(jobs, limit) == IF jobs >= limit THEN "wait" ELSE "slot"

\* generateMultipleZips(tasks) up to the await of its first waitForAvailableSlot;
\* a call without tasks returns at once and leaves no trace
GenerateMultipleZips ==
    \E total \in 1..MaxTasks :
        /\ Len(zipCalls) < MaxCalls
        /\ zipCalls' = Append(zipCalls,
                           [total |-> total, i |-> 0, results |-> <<>>,
                            pc |-> waitForAvailableSlot(currentJobs, maxConcurrentJobs)])
        /\ UNCHANGED <<currentJobs, npVars, callerVars, scoreVars, padVars, appVars,
                       settingVars, outputVars, zipVars, parseVars, listenerVars, levelVars, userVars>>

\* waitForAvailableSlot resumes from await Utils.delay(100) and tests the
\* loop condition again
DelayElapsed ==
    \E c \in 1..Len(zipCalls) :
        /\ zipCalls[c].pc = "wait"
        /\ zipCalls' = [zipCalls EXCEPT
                           ![c].pc = waitForAvailableSlot(currentJobs, maxConcurrentJobs)]
        /\ UNCHANGED <<currentJobs, npVars, callerVars, scoreVars, padVars, appVars,
                       settingVars, outputVars, zipVars, parseVars, listenerVars, levelVars, userVars>>

\* generateMultipleZips resumes from await waitForAvailableSlot(): the job
\* starts and runs up to the await of generateZipFromImages
StartJob ==
    \E c \in 1..Len(zipCalls) :
        /\ zipCalls[c].pc = "slot"
        /\ currentJobs' = currentJobs + 1
        /\ zipCalls' = [zipCalls EXCEPT ![c].pc = "zip"]
        /\ UNCHANGED <<npVars, callerVars, scoreVars, padVars, appVars,
                       settingVars, outputVars, zipVars, parseVars, listenerVars, levelVars, userVars>>

\* generateMultipleZips resumes from await generateZipFromImages: the result
\* of the task, the finally block, then the next task up to its await, or
\* the return
JobDone ==
    \E c \in 1..Len(zipCalls), success \in BOOLEAN :
        LET call == zipCalls[c]
        IN  /\ call.pc = "zip"
            /\ currentJobs' = currentJobs - 1
            /\ IF call.i + 1 < call.total
               THEN zipCalls' = [zipCalls EXCEPT
                        ![c].i = call.i + 1,
                        ![c].results = Append(call.results, success),
                        ![c].pc = waitForAvailableSlot(currentJobs - 1, maxConcurrentJobs)]
               ELSE zipCalls' = ended(zipCalls, c)
            /\ UNCHANGED <<npVars, callerVars, scoreVars, padVars, appVars,
                           settingVars, outputVars, zipVars, parseVars, listenerVars, levelVars, userVars>>

JobsNext ==
    \/ SetConfig
    \/ GenerateMultipleZips
    \/ DelayElapsed
    \/ StartJob
    \/ JobDone

SpecJobs == Init /\ [][JobsNext]_vars

(***************************************************************************)
(* SpecCleanup: generateMultipleZips calls with setConfig and cleanup()    *)
(***************************************************************************)
\* cleanup(): currentJobs = 0; the jobQueue it empties is used by no method
Cleanup ==
    /\ currentJobs' = 0
    /\ UNCHANGED <<zipCalls, npVars, callerVars, scoreVars, padVars, appVars,
                   settingVars, outputVars, zipVars, parseVars, listenerVars, levelVars, userVars>>

CleanupNext ==
    \/ SetConfig
    \/ GenerateMultipleZips
    \/ DelayElapsed
    \/ StartJob
    \/ JobDone
    \/ Cleanup

SpecCleanup == Init /\ [][CleanupNext]_vars

(***************************************************************************)
(* SpecLevels: setCompressionLevel, setMaxConcurrentJobs and setConfig     *)
(***************************************************************************)
\* the compression levels handed to the setters
LevelSettings == (-1)..MaxLevel

setCompressionLevelUnchecked(current, level) == level

\* setCompressionLevel(level): the value the ZipGenerator has afterwards
setCompressionLevel(current, level) == IF level >= 0 /\ level <= 9 THEN level ELSE current

\* zipGenerator.setCompressionLevel(level)
SetCompressionLevel ==
    \E level \in LevelSettings :
        /\ compressionLevel' = setCompressionLevel(compressionLevel, level)
        /\ UNCHANGED <<npVars, callerVars, scoreVars, padVars, appVars, settingVars,
                       outputVars, zipVars, jobVars, parseVars, listenerVars, userVars>>

\* zipGenerator.setMaxConcurrentJobs(maxJobs)
SetMaxConcurrentJobs ==
    \E maxJobs \in TaskSettings :
        /\ maxConcurrentJobs' = setMaxConcurrentJobs(maxConcurrentJobs, maxJobs)
        /\ UNCHANGED <<config, npVars, callerVars, scoreVars, padVars, appVars,
                       outputVars, zipVars, jobVars, parseVars, listenerVars, levelVars,
                       userVars>>

\* setConfig(newConfig) with any of the keys maxConcurrentTasks and
\* compressionLevel: Object.assign, then the setter for a truthy
\* maxConcurrentTasks and for a compressionLevel that is not undefined
SetConfigKeys ==
    \E hasTasks \in BOOLEAN, tasks \in TaskSettings,
       hasLevel \in BOOLEAN, level \in LevelSettings :
        /\ hasTasks \/ hasLevel
        /\ config' = [maxConcurrentTasks |->
                          IF hasTasks THEN tasks ELSE config.maxConcurrentTasks,
                      compressionLevel |->
                          IF hasLevel THEN level ELSE config.compressionLevel]
        /\ maxConcurrentJobs' =
               IF hasTasks /\ tasks # 0
               THEN setMaxConcurrentJobs(maxConcurrentJobs, tasks) ELSE maxConcurrentJobs
        /\ compressionLevel' =
               IF hasLevel
               THEN setCompressionLevel(compressionLevel, level) ELSE compressionLevel
        /\ UNCHANGED <<npVars, callerVars, scoreVars, padVars, appVars, outputVars,
                       zipVars, jobVars, parseVars, listenerVars, userVars>>

LevelsNext ==
    \/ SetCompressionLevel
    \/ SetMaxConcurrentJobs
    \/ SetConfigKeys

SpecLevels == Init /\ [][LevelsNext]_vars

(***************************************************************************)
(* SpecPreview: the pipeline with previewSorting on the files of the registry *)
(***************************************************************************)
\* previewSorting(getAllFiles()): the preview goes to the caller; the scans
\* move the pattern's lastIndex
PreviewRegistry ==
    /\ selectedFiles # <<>>
    /\ preview' = previewSorting(allFiles(selectedFiles, fileObjs))
    /\ lastIndex' = LastIndexAfter(allFiles(selectedFiles, fileObjs), lastIndex)
    /\ UNCHANGED <<sortedFiles, batch, nameMapping, firstMapping, runs, between,
                   scoreVars, padVars, appVars, settingVars, outputVars, zipVars, jobVars,
                   parseVars, listenerVars, levelVars, userVars>>

PreviewNext ==
    \/ AddFiles
    \/ StartProcessing
    \/ ParseDone
    \/ ZipDone
    \/ DelayDone
    \/ PreviewRegistry

SpecPreview == Init /\ [][PreviewNext]_vars

(***************************************************************************)
(* SpecReset: the pipeline with reset()                                    *)
(***************************************************************************)
\* reset(): the warning while processing; else clearAllFiles() with its
\* filesCleared listener, processedResults.clear() and NameProcessor.reset()
Reset ==
    IF busy
    THEN /\ notice' = [kind |-> "no_reset", count |-> 0]
         /\ UNCHANGED <<selectedFiles, fileObjs, isProcessing, processedResults, pipelines,
                        npVars, callerVars, scoreVars, padVars, settingVars, outputVars,
                        zipVars, jobVars, parseVars, listenerVars, levelVars, userVars>>
    ELSE /\ selectedFiles' = <<>>
         /\ processedResults' = <<>>
         /\ sortedFiles' = <<>>
         /\ fileObjs' = collect(fileObjs, <<>>, pipelines)
         /\ notice' = [kind |-> "reset", count |-> 0]
         /\ UNCHANGED <<isProcessing, pipelines, lastIndex, callerVars, scoreVars, padVars,
                        settingVars, outputVars, zipVars, jobVars, parseVars, listenerVars,
                        levelVars, userVars>>

ResetNext ==
    \/ AddFiles
    \/ StartProcessing
    \/ ParseDone
    \/ ZipDone
    \/ DelayDone
    \/ Reset

SpecReset == Init /\ [][ResetNext]_vars

(***************************************************************************)
(* SpecDestroy: the pipeline with destroy() and a throwing batch driver    *)
(***************************************************************************)
\* addFiles(files) on a FileHandler without listeners: no handleFilesAdded,
\* so no output name is computed
AddFilesUnheard(files) ==
    LET added == addFilesFrom(files, 1, [ids |-> selectedFiles, objs |-> fileObjs])
    IN  /\ Len(added.objs) <= MaxFiles
        /\ selectedFiles' = added.ids
        /\ fileObjs' = added.objs
        /\ UNCHANGED <<isProcessing, processedResults, pipelines, notice,
                       npVars, callerVars, scoreVars, padVars, settingVars, outputVars,
                       zipVars, jobVars, parseVars, listenerVars, levelVars>>

\* handleFileSelect with a non-empty list of valid files, before or after
\* destroy()
SelectFiles ==
    \E files \in Selections :
        /\ IF listening THEN AddValidFiles(files) ELSE AddFilesUnheard(files)
        /\ UNCHANGED userVars

\* startProcessing resumes from await processBatch and handleProcessingComplete
\* throws: the catch block with handleProcessingError, then the finally block
BatchThrows ==
    \E p \in 1..Len(pipelines) :
        LET pl == pipelines[p]
        IN  /\ iterationDone(pl)
            /\ ~moreFiles(pl)
            /\ notice' = [kind |-> "failed", count |-> 0]
            /\ isProcessing' = FALSE
            /\ pipelines' = ended(pipelines, p)
            /\ fileObjs' = collect(fileObjs, selectedFiles, ended(pipelines, p))
            /\ UNCHANGED <<selectedFiles, processedResults,
                           npVars, callerVars, scoreVars, padVars, settingVars, outputVars,
                           zipVars, jobVars, parseVars, listenerVars, levelVars, userVars>>

\* destroy(): isProcessing = false, FileHandler.destroy(), NameProcessor.reset(),
\* ZipGenerator.cleanup() and processedResults.clear(); a suspended
\* processBatch is not told
Destroy ==
    /\ isProcessing' = FALSE
    /\ selectedFiles' = <<>>
    /\ listening' = FALSE
    /\ sortedFiles' = <<>>
    /\ currentJobs' = 0
    /\ processedResults' = <<>>
    /\ fileObjs' = collect(fileObjs, <<>>, pipelines)
    /\ UNCHANGED <<pipelines, notice, lastIndex, zipCalls, callerVars, scoreVars, padVars,
                   settingVars, outputVars, zipVars, parseVars, levelVars, userVars>>

DestroyNext ==
    \/ SelectFiles
    \/ StartProcessing
    \/ ParseDone
    \/ ZipDone
    \/ DelayDone
    \/ BatchThrows
    \/ Destroy

SpecDestroy == Init /\ [][DestroyNext]_vars

\* the pipeline without destroy(): every resumption of a suspended
\* processBatch happens once its awaited step has terminated
PipelineNext ==
    \/ AddFiles
    \/ StartProcessing
    \/ ParseDone
    \/ ZipDone
    \/ DelayDone
    \/ BatchThrows

SpecPipeline ==
    /\ Init /\ [][PipelineNext]_vars
    /\ WF_vars(ParseDone) /\ WF_vars(ZipDone) /\ WF_vars(DelayDone)

(***************************************************************************)
(* SpecParse: parseEpub on one archive and the job of processBatch on it   *)
(***************************************************************************)
\* String.prototype.includes, and RegExp.prototype.test of a literal
Contains(str, sub) ==
    \E k \in 1..(Len(str) - Len(sub) + 1) : SubSeq(str, k, k + Len(sub) - 1) = sub

imageExtensions == {".jpg", ".jpeg", ".png", ".gif", ".webp", ".bmp", ".svg"}

\* the directory names of the pattern of isInImageDirectory
ImageDirectories ==
    {"image", "images", "pic", "pics", "graphic", "graphics", "asset", "assets", "media"}

\* the words of the pattern of isNotThumbnail
ThumbnailWords == {"thumb", "thumbnail", "cover", "icon"}

\* isImageFile(path); both patterns ignore case
isImageFile(path) ==
    LET lowerPath == ToLowerCase(path)
        hasImageExtension == \E ext \in imageExtensions : EndsWith(lowerPath, ext)
        isInImageDirectory == \E d \in ImageDirectories : Contains(lowerPath, "/" \o d \o "/")
        isNotThumbnail == ~(\E w \in ThumbnailWords : Contains(lowerPath, w))
    IN  hasImageExtension /\ (isInImageDirectory \/ isNotThumbnail)

\* generateImageFileName(originalPath): what follows the last slash. The
\* path of an image file ends with an image extension, so that part is never
\* empty and never a lone dot, and the fallback name is never built
generateImageFileName(originalPath) ==
    LET slashes == {k \in 1..Len(originalPath) : CharAt(originalPath, k) = "/"}
    IN  IF slashes = {} THEN originalPath
        ELSE SubSeq(originalPath, Max(slashes) + 1, Len(originalPath))

\* Array.prototype.sort (stable) of the image files by
\* a.path.localeCompare(b.path, 'zh-CN', { numeric: true })
RECURSIVE sortByPath(_)
sortByPath(files) ==
    IF Len(files) <= 1 THEN files
    ELSE LET rest == sortByPath(SubSeq(files, 1, Len(files) - 1))
             last == files[Len(files)]
             before == {k \in 1..Len(rest) : LocaleCompare(rest[k].path, last.path) <= 0}
             n == IF before = {} THEN 0 ELSE Max(before)
         IN  SubSeq(rest, 1, n) \o <<last>> \o SubSeq(rest, n + 1, Len(rest))

\* extractImages(zipContent): the image files of the archive in path order,
\* without those whose data cannot be read (extractImageData returns null)
extractImages(entries) ==
    LET imageFiles == SelectSeq(entries, LAMBDA e : ~e.dir /\ isImageFile(e.path))
        extracted == SelectSeq(sortByPath(imageFiles), LAMBDA e : e.readable)
    IN  [k \in 1..Len(extracted) |->
            [originalPath |-> extracted[k].path,
             fileName |-> generateImageFileName(extracted[k].path)]]

\* the result of the catch block of parseEpub
parseFailure(message) == [success |-> FALSE, error |-> message, images |-> <<>>]

\* a parseEpub that takes a wrong mimetype for a failure
parseEpubStrict(file) ==
    IF ~file.opens THEN parseFailure("cannot_open")
    ELSE IF file.mimetype \in {"unreadable", "wrong"} THEN parseFailure("wrong_mimetype")
    ELSE IF ~file.container THEN parseFailure("missing_container")
    ELSE [success |-> TRUE, error |-> "", images |-> extractImages(file.entries)]

\* parseEpub(file): loadAsync, validateEpubStructure (the mimetype entry is
\* read when there is one and only warned about, META-INF/container.xml has
\* to be there), extractImages; extractMetadata catches its own errors and
\* its value is left out
parseEpub(file) ==
    IF ~file.opens THEN parseFailure("cannot_open")
    ELSE IF file.mimetype = "unreadable" THEN parseFailure("unreadable_entry")
    ELSE IF ~file.container THEN parseFailure("missing_container")
    ELSE [success |-> TRUE, error |-> "", images |-> extractImages(file.entries)]

\* the entries of the archives of the model: path, directory flag, and
\* whether the data of the entry can be read
EpubEntries ==
    {[path |-> "oebps/images/p10.jpg", dir |-> FALSE, readable |-> TRUE],
     [path |-> "oebps/images/p2.jpg", dir |-> FALSE, readable |-> TRUE],
     [path |-> "oebps/images/p2.jpg", dir |-> FALSE, readable |-> FALSE],
     [path |-> "oebps/images/icon.png", dir |-> FALSE, readable |-> TRUE],
     [path |-> "oebps/cover.jpg", dir |-> FALSE, readable |-> TRUE],
     [path |-> "oebps/ch1.xhtml", dir |-> FALSE, readable |-> TRUE],
     [path |-> "oebps/images/", dir |-> TRUE, readable |-> TRUE]}

\* the entry lists of up to n entries with distinct paths
RECURSIVE EntryLists(_)
EntryLists(n) ==
    IF n = 0 THEN {<<>>}
    ELSE EntryLists(n - 1) \cup
         {Append(l, e) : l \in {x \in EntryLists(n - 1) : Len(x) = n - 1},
                         e \in EpubEntries}

\* the archives of the model: whether JSZip can open the file, its mimetype
\* entry, whether it has META-INF/container.xml, and its other entries
EpubFiles ==
    {f \in [opens : BOOLEAN, mimetype : {"missing", "right", "wrong", "unreadable"},
            container : BOOLEAN, entries : EntryLists(MaxEntries)] :
        \A i, j \in 1..Len(f.entries) : f.entries[i].path = f.entries[j].path => i = j}

\* processBatch enters the loop body for the file: status processing, then
\* await parseEpub
ParseInit ==
    /\ NameProcessorInit /\ CallerIdle /\ ScoreIdle /\ PadIdle
    /\ AppInit /\ SettingsInit /\ OutputsInit /\ ZipIdle /\ JobsIdle /\ NoSelection /\ Listening /\ LevelInit
    /\ epub \in EpubFiles
    /\ parseResult = NoParseResult
    /\ parseJob = [pc |-> "parse", status |-> "processing", error |-> "", stored |-> FALSE]

\* parseEpub returns
ParseEpub ==
    /\ parseJob.pc = "parse"
    /\ parseResult' = parseEpub(epub)
    /\ parseJob' = [parseJob EXCEPT !.pc = "parsed"]
    /\ UNCHANGED <<epub, npVars, callerVars, scoreVars, padVars, appVars, settingVars,
                   outputVars, zipVars, jobVars, listenerVars, levelVars, userVars>>

\* processBatch resumes from await parseEpub: the two throws and the catch
\* block, or on to await generateZipFromImages
CheckParseResult ==
    /\ parseJob.pc = "parsed"
    /\ IF ~parseResult.success
       THEN parseJob' = [parseJob EXCEPT !.pc = "failed", !.status = "error",
                                         !.error = parseResult.error]
       ELSE IF Len(parseResult.images) = 0
       THEN parseJob' = [parseJob EXCEPT !.pc = "failed", !.status = "error",
                                         !.error = "no_images"]
       ELSE parseJob' = [parseJob EXCEPT !.pc = "zip"]
    /\ UNCHANGED <<epub, parseResult, npVars, callerVars, scoreVars, padVars, appVars,
                   settingVars, outputVars, zipVars, jobVars, listenerVars, levelVars, userVars>>

\* processBatch resumes from await generateZipFromImages: the result is
\* stored and the file completed, or the catch block
FinishZip ==
    \E outcome \in {"blob", "compression_failed"} :
        /\ parseJob.pc = "zip"
        /\ IF outcome = "blob"
           THEN parseJob' = [parseJob EXCEPT !.pc = "done", !.status = "completed",
                                             !.stored = TRUE]
           ELSE parseJob' = [parseJob EXCEPT !.pc = "failed", !.status = "error",
                                             !.error = outcome]
        /\ UNCHANGED <<epub, parseResult, npVars, callerVars, scoreVars, padVars, appVars,
                       settingVars, outputVars, zipVars, jobVars, listenerVars, levelVars, userVars>>

ParseNext == ParseEpub \/ CheckParseResult \/ FinishZip

SpecParse == ParseInit /\ [][ParseNext]_vars

(***************************************************************************)
(* Claims on processFileNames (SpecNames)                                  *)
(***************************************************************************)
MappingIndices == 1..Len(nameMapping)

\* the stripped name has no decimal digit
NoDigit(str) == \A k \in 1..Len(str) : ~IsDigit(CharAt(str, k))

\* the primary number of a file name
PrimaryOf(name) == numbersOf(name).primaryNumber

\* the sequence number the last mapping gives to the file of an id
SequenceOf(id) ==
    nameMapping[CHOOSE k \in MappingIndices : nameMapping[k].fileId = id].sequenceNumber

\* C1: for a batch of N files processFileNames returns exactly N mappings,
\* one per input file id, whose sequence numbers are exactly 1..N and whose
\* output names are pairwise distinct
C1_OneMappingPerFile ==
    runs >= 1 =>
        /\ Len(nameMapping) = Len(batch)
        /\ \A i \in 1..Len(batch) :
               Cardinality({k \in MappingIndices : nameMapping[k].fileId = batch[i].id}) = 1
        /\ {nameMapping[k].sequenceNumber : k \in MappingIndices} = 1..Len(batch)
        /\ \A k, l \in MappingIndices :
               k # l => nameMapping[k].outputName # nameMapping[l].outputName

C1_Witness ==
    /\ runs >= 1
    /\ Len(batch) >= 3
    /\ nameMapping[1].fileId # batch[1].id

C3_OrderedByPrimaryNumber ==
    runs >= 1 =>
        \A i, j \in 1..Len(batch) :
            /\ PrimaryOf(batch[i].name) < PrimaryOf(batch[j].name)
                   => SequenceOf(batch[i].id) < SequenceOf(batch[j].id)
            /\ LET ni == numbersOf(batch[i].name).numbers
                   nj == numbersOf(batch[j].name).numbers
               IN  (Len(ni) = 1 /\ Len(nj) = 1 /\ ni[1].value < nj[1].value)
                       => SequenceOf(batch[i].id) < SequenceOf(batch[j].id)

C3_Witness ==
    /\ runs >= 1
    /\ Len(batch) = 3
    /\ batch[1].name = "ch2.epub" /\ batch[2].name = "ch10.epub" /\ batch[3].name = "ch1.epub"
    /\ SequenceOf(3) = 1 /\ SequenceOf(1) = 2 /\ SequenceOf(2) = 3

\* C4: the comparator of sortFilesByNumbers never reports two distinct
\* entries of a batch equal (a strict total order)
C4_ComparatorNeverEqual ==
    runs >= 1 =>
        \A i, j \in 1..Len(sortedFiles) :
            i # j => compareFiles(sortedFiles[i], sortedFiles[j]) # 0

\* C8: processFileNames returns a full mapping for names that are empty,
\* have no digit or are only an extension, with the hash of the stripped
\* name as primary number; a batch of one file gets the name 001.zip
C8_NoNumberFallback ==
    runs >= 1 =>
        /\ Len(nameMapping) = Len(batch)
        /\ \A k \in MappingIndices :
               NoDigit(RemoveFileExtension(nameMapping[k].originalName))
                   => nameMapping[k].primaryNumber
                          = HashCode(RemoveFileExtension(nameMapping[k].originalName))
        /\ (Len(batch) = 1 => nameMapping[1].outputName = "001.zip")

C8_Witness ==
    /\ runs >= 1
    /\ Len(batch) = 1
    /\ batch[1].name = "cover.epub"
    /\ nameMapping[1].primaryNumber = 94852023
    /\ nameMapping[1].outputName = "001.zip"

(***************************************************************************)
(* Claims on output names (SpecPad)                                        *)
(***************************************************************************)
\* the number of decimal digits of n >= 1
DecimalDigits(n) == Min({d \in 1..9 : n < 10 ^ d})

RECURSIVE Zeros(_)
Zeros(n) == IF n <= 0 THEN "" ELSE "0" \o Zeros(n - 1)

\* a is before b in code-unit (lexicographic) order
LexLess(a, b) == CodeUnitCompare(a, b) < 0

\* C5: every output name of a batch of N files is the rank zero-padded to
\* max(3, decimal digits of N) digits, followed by ".zip"; the names of a
\* batch have one length, and their lexicographic order is that of the ranks
C5_PaddedNames ==
    padName # "" =>
        LET width == Max({3, DecimalDigits(padTotal)})
            rank == padIndex + 1
        IN  /\ padName = Zeros(width - DecimalDigits(rank)) \o ToStr(rank) \o ".zip"
            /\ \A other \in 0..(padTotal - 1) :
                   LET otherName == outputNameOf(other, padTotal)
                   IN  /\ Len(otherName) = Len(padName)
                       /\ (other < padIndex) = LexLess(otherName, padName)

C5_Witness ==
    /\ padTotal = 1000
    /\ padIndex = 0
    /\ padName = "0001.zip"

(***************************************************************************)
(* Claims on the primary number (SpecScore)                                *)
(***************************************************************************)
TokenIndices == 1..Len(scoreNumbers)

\* C6: with exactly one number the primary number is its value; with several
\* it is the value of the leftmost token among those of the highest score
C6_PrimaryNumberChoice ==
    scoreStage = "scored" =>
        /\ Len(scoreNumbers) = 1 => scorePrimary = scoreNumbers[1].value
        /\ Len(scoreNumbers) > 1 =>
               \E i \in TokenIndices :
                   /\ scorePrimary = scoreNumbers[i].value
                   /\ \A j \in TokenIndices : scoreScores[j] <= scoreScores[i]
                   /\ \A j \in 1..(i - 1) : scoreScores[j] < scoreScores[i]

C6_Witness ==
    /\ scoreStage = "scored"
    /\ scoreName = "1a7"
    /\ scoreScores = <<100, 100>>
    /\ scorePrimary = 1

\* the parts of the score of a token, from the claim
PositionPart(index, length, nameLength) ==
    IF index = 0 \/ index + length = nameLength THEN 50
    ELSE IF 10 * index < 2 * nameLength \/ 10 * index > 8 * nameLength THEN 30
    ELSE 0

LengthPart(length) ==
    CASE length = 1 -> 30 [] length = 2 -> 25 [] length = 3 -> 20 [] OTHER -> 0

ValuePart(value) ==
    IF value > 999 THEN 0
    ELSE IF 20 - (value \div 50) > 0 THEN 20 - (value \div 50) ELSE 0

\* the character at 0-based position k is a separator; no position outside
\* the name is
SeparatorAt(name, k) ==
    /\ k >= 0
    /\ k < Len(name)
    /\ CharAt(name, k + 1) \in {"-", "_", " ", ".", "(", ")", "[", "]"}

SeparatorPart(index, length, name) ==
    IF SeparatorAt(name, index - 1) \/ SeparatorAt(name, index + length) THEN 15 ELSE 0

\* C7: the score of every token of every stripped name is the sum of its
\* position, length, value and separator parts
C7_ScoreIsSumOfParts ==
    scoreStage = "scored" =>
        \A i \in TokenIndices :
            scoreScores[i]
                = PositionPart(scoreNumbers[i].index, scoreNumbers[i].length, Len(scoreName))
                  + LengthPart(scoreNumbers[i].length)
                  + ValuePart(scoreNumbers[i].value)
                  + SeparatorPart(scoreNumbers[i].index, scoreNumbers[i].length, scoreName)

C7_Witness ==
    /\ scoreStage = "scored"
    /\ scoreName = "bbbbbbb_a1_"
    /\ scoreScores = <<95>>

C10_FailureDoesNotStopBatch ==
    [][\A p \in 1..Len(pipelines) :
          LET pl == pipelines[p]
          IN  /\ (pl.pc = "delay" /\ pl.pos < Len(pl.files) /\ pipelines' # pipelines) =>
                     /\ Len(pipelines') = Len(pipelines)
                     /\ pipelines'[p].pos = pl.pos + 1
                     /\ pipelines'[p].pc = "parse"
              /\ pipelines' = ended(pipelines, p) =>
                     /\ pl.completedFiles = Len(pl.files)
                     /\ \A k \in 1..Len(pl.files) :
                            (\E j \in 1..Len(selectedFiles') : selectedFiles'[j] = pl.files[k])
                                => fileObjs'[pl.files[k]].status \in {"completed", "error"}]_vars

C10_Witness ==
    /\ Len(pipelines) = 1
    /\ Len(pipelines[1].files) = 2
    /\ pipelines[1].pos = 2
    /\ pipelines[1].pc = "delay"
    /\ pipelines[1].completedFiles = 2
    /\ pipelines[1].successfulFiles = 1
    /\ Registered(pipelines[1].files[1])
    /\ fileObjs[pipelines[1].files[1]].status = "error"
    /\ fileObjs[pipelines[1].files[2]].status = "completed"

\* the results registry has a result for the file of an id
HasResult(results, id) == \E k \in 1..Len(results) : results[k].fileId = id

ResultOf(results, id) == results[CHOOSE k \in 1..Len(results) : results[k].fileId = id]

\* C11: when a pipeline ends, the results registry holds a result for every
\* file of its batch that is in the registry: success true for a completed
\* file, success false for a file in error
C11_ResultForEveryFile ==
    [][\A p \in 1..Len(pipelines) :
          pipelines' = ended(pipelines, p) =>
              \A k \in 1..Len(pipelines[p].files) :
                  LET id == pipelines[p].files[k]
                  IN  (\E j \in 1..Len(selectedFiles') : selectedFiles'[j] = id) =>
                          /\ HasResult(processedResults', id)
                          /\ ResultOf(processedResults', id).success
                                 = (fileObjs'[id].status = "completed")]_vars

\* the status changes of the claim's life cycle
LifeCycle ==
    {<<"waiting", "processing">>, <<"processing", "completed">>, <<"processing", "error">>}

\* C12: a file of the registry changes its status only from waiting to
\* processing and from processing to completed or error; it goes to error
\* from a failed extraction without a compression step, and it is completed
\* only with its result stored
C12_StatusLifeCycle ==
    [][\A id \in 1..Len(fileObjs) :
          (Registered(id) /\ fileObjs'[id].status # fileObjs[id].status
                /\ fileObjs'[id].status # "collected") =>
              /\ <<fileObjs[id].status, fileObjs'[id].status>> \in LifeCycle
              /\ fileObjs'[id].status = "completed" =>
                     /\ HasResult(processedResults', id)
                     /\ ResultOf(processedResults', id).success
              /\ \A p \in 1..Len(pipelines) :
                     (pipelines[p].pc = "parse" /\ fileObjs'[id].status = "error"
                          /\ pipelines[p].files[pipelines[p].pos] = id)
                         => pipelines'[p].pc = "delay"]_vars

\* a status a file ends a run with
Terminal == {"completed", "error"}

\* C14: transitions are emitted in batch order: a pipeline takes the files
\* in the order of the registry and starts with the first, and it marks file j + 1 processing only from the end of the
\* iteration of file j, when every earlier file of the batch that is in the
\* registry has its terminal status
C14_TransitionsInBatchOrder ==
    [][\A p \in 1..Len(pipelines') :
          IF p > Len(pipelines)
          THEN /\ pipelines'[p].files = selectedFiles
               /\ pipelines'[p].pos = 1
               /\ pipelines'[p].pc = "parse"
          ELSE (Len(pipelines') = Len(pipelines) /\ pipelines'[p].pos # pipelines[p].pos) =>
                   /\ pipelines'[p].pos = pipelines[p].pos + 1
                   /\ pipelines[p].pc = "delay"
                   /\ \A i \in 1..pipelines[p].pos :
                          Registered(pipelines[p].files[i])
                              => fileObjs[pipelines[p].files[i]].status \in Terminal
                   /\ Registered(pipelines[p].files[pipelines'[p].pos])
                          => fileObjs'[pipelines[p].files[pipelines'[p].pos]].status = "processing"]_vars

C14_Witness ==
    /\ Len(pipelines) = 1
    /\ pipelines[1].pos = 2
    /\ pipelines[1].pc = "parse"
    /\ Registered(pipelines[1].files[1])
    /\ Registered(pipelines[1].files[2])
    /\ fileObjs[pipelines[1].files[1]].status = "completed"
    /\ fileObjs[pipelines[1].files[2]].status = "processing"

\* the files of a batch that are in the registry with status completed
CompletedOf(pl, ids, objs) ==
    {k \in 1..Len(pl.files) :
        /\ \E j \in 1..Len(ids) : ids[j] = pl.files[k]
        /\ objs[pl.files[k]].status = "completed"}

\* C15: when a pipeline ends whose batch files are all in the registry, the
\* success count of the completion summary is the number of files of the
\* batch that the run completed
C15_SummaryCountsThisRun ==
    [][\A p \in 1..Len(pipelines) :
          (/\ pipelines' = ended(pipelines, p)
           /\ \A k \in 1..Len(pipelines[p].files) :
                  \E j \in 1..Len(selectedFiles') : selectedFiles'[j] = pipelines[p].files[k])
              => /\ notice'.count = Cardinality(CompletedOf(pipelines[p], selectedFiles', fileObjs'))
                 /\ notice'.count = pipelines[p].successfulFiles]_vars

\* C20: at every moment, every result of the results registry whose file is
\* in the file registry has the output name the file has now as its fileName
C20_ResultNamedAsItsFile ==
    \A k \in 1..Len(processedResults) :
        Registered(processedResults[k].fileId) =>
            processedResults[k].fileName = fileObjs[processedResults[k].fileId].outputName

\* C21: a file of the registry in status error has a non-empty error field,
\* and a file in status completed or waiting has an empty one
C21_ErrorFieldFollowsStatus ==
    \A k \in 1..Len(selectedFiles) :
        LET file == fileObjs[selectedFiles[k]]
        IN  /\ file.status = "error" => file.error # ""
            /\ file.status \in {"completed", "waiting"} => file.error = ""

\* the pipelines whose current file has the id: the jobs on that file that
\* have not run to the end of their loop body and the one that waits after it
JobsOn(id) ==
    {p \in 1..Len(pipelines) : pipelines[p].files[pipelines[p].pos] = id}

\* C22: at every moment at most one job is at work on a file id, and no batch
\* holds a file id twice, so the jobs of one batch never come back to a file
C22_OneJobPerFile ==
    /\ \A id \in 1..Len(fileObjs) : Cardinality(JobsOn(id)) <= 1
    /\ \A p \in 1..Len(pipelines) :
           \A i, j \in 1..Len(pipelines[p].files) :
               pipelines[p].files[i] = pipelines[p].files[j] => i = j

\* the job of the second file of a batch is suspended in the ZIP generation
\* after the job of the first file stored its result
C22_Witness ==
    /\ Len(pipelines) = 1
    /\ Len(pipelines[1].files) = 2
    /\ pipelines[1].pos = 2
    /\ pipelines[1].pc = "zip"
    /\ HasResult(processedResults, pipelines[1].files[1])

WithoutLastExtension(name) ==
    IF \E p \in 1..(Len(name) - 1) :
           CharAt(name, p) = "." /\ \A q \in (p + 1)..Len(name) : CharAt(name, q) # "."
    THEN SubSeq(name, 1, (CHOOSE p \in 1..(Len(name) - 1) :
                             CharAt(name, p) = "."
                             /\ \A q \in (p + 1)..Len(name) : CharAt(name, q) # ".") - 1)
    ELSE name

\* the maximal runs of decimal digits of str, as <<first, last>> positions
DigitRuns(str) ==
    {r \in (1..Len(str)) \X (1..Len(str)) :
        /\ r[1] <= r[2]
        /\ \A k \in r[1]..r[2] : IsDigit(CharAt(str, k))
        /\ (r[1] = 1 \/ ~IsDigit(CharAt(str, r[1] - 1)))
        /\ (r[2] = Len(str) \/ ~IsDigit(CharAt(str, r[2] + 1)))}

RECURSIVE PowerOfTen(_)
PowerOfTen(n) == IF n = 0 THEN 1 ELSE 10 * PowerOfTen(n - 1)

\* the base-10 value of a run of digits
RECURSIVE DecimalValue(_, _)
DecimalValue(str, k) ==
    IF k > Len(str) THEN 0
    ELSE DigitVal(CharAt(str, k)) * PowerOfTen(Len(str) - k) + DecimalValue(str, k + 1)

\* C25: extractNumbers returns one token for every maximal run of decimal
\* digits of the name without its last extension, left to right, with the
\* base-10 value, the start position and the length of the run; the digits
\* of the extension give no token
C25_OneTokenPerDigitRun ==
    scoreStage = "extracted" =>
        LET stripped == WithoutLastExtension(scoreName)
            digitRuns == DigitRuns(stripped)
        IN  /\ Len(scoreNumbers) = Cardinality(digitRuns)
            /\ \A k \in 1..Len(scoreNumbers) :
                   LET token == scoreNumbers[k]
                       run == <<token.index + 1, token.index + token.length>>
                   IN  /\ run \in digitRuns
                       /\ token.originalString = SubSeq(stripped, run[1], run[2])
                       /\ token.value = DecimalValue(token.originalString, 1)
                       /\ k > 1 => scoreNumbers[k - 1].index < token.index

\* the name 007.7 has given the one token of value 7, index 0 and length 3
C25_Witness ==
    /\ scoreStage = "extracted"
    /\ scoreName = "007.7"
    /\ scoreNumbers = <<[value |-> 7, originalString |-> "007", index |-> 0, length |-> 3]>>

\* hash * 31 + charCode folded over the characters from position i without
\* any wrap-around, as <<d2, d1, d0>> digits in base 65536
RECURSIVE ExactFold(_, _, _)
ExactFold(str, i, d) ==
    IF i > Len(str) THEN d
    ELSE LET low == d[3] * 31 + CharCode(CharAt(str, i))
             mid == d[2] * 31 + (low \div 65536)
             top == d[1] * 31 + (mid \div 65536)
         IN  ExactFold(str, i + 1, <<top, mid % 65536, low % 65536>>)

\* the absolute value of the 32-bit signed wrap-around of an exact value
AbsOfWrap32(d) ==
    IF d[2] < 32768 THEN d[2] * 65536 + d[3]
    ELSE (65536 - d[2]) * 65536 - d[3]

\* C26: hashCode returns a non-negative integer: 0 for the empty string, and
\* otherwise the absolute value of the 32-bit signed wrap-around of
\* hash * 31 + charCode folded over the characters. A name whose stripped
\* name has no digit has its hashCode for primary number
C26_HashIsAbsOfWrappedFold ==
    (scoreStage = "extracted" /\ scoreNumbers = <<>>) =>
        LET str == WithoutLastExtension(scoreName)
        IN  /\ scorePrimary >= 0
            /\ str = "" => scorePrimary = 0
            /\ scorePrimary = AbsOfWrap32(ExactFold(str, 1, <<0, 0, 0>>))

\* the fold over aaaaaa is 2869595232, which wraps to -1425372064
C26_Witness ==
    /\ scoreStage = "extracted"
    /\ scoreName = "aaaaaa"
    /\ scorePrimary = 1425372064

\* C28: at every moment after an addition, through later additions,
\* removals and pipeline runs, every file of the registry has a non-empty
\* output name and no two files of the registry have the same output name
C28_OutputNamesSetAndDistinct ==
    \A i, j \in 1..Len(selectedFiles) :
        /\ fileObjs[selectedFiles[i]].outputName # ""
        /\ fileObjs[selectedFiles[i]].outputName = fileObjs[selectedFiles[j]].outputName
               => i = j

\* the second of two files is alone in the registry after a removal, and a
\* pipeline run has completed it under its name 002.zip
C28_Witness ==
    /\ Len(selectedFiles) = 1
    /\ fileObjs[selectedFiles[1]].outputName = "002.zip"
    /\ fileObjs[selectedFiles[1]].status = "completed"
    /\ HasResult(processedResults, selectedFiles[1])
    /\ ResultOf(processedResults, selectedFiles[1]).fileName = "002.zip"

\* C29: at every moment every key of the results registry is the id of a
\* file of the file registry
C29_ResultsOfRegisteredFiles ==
    \A k \in 1..Len(processedResults) : Registered(processedResults[k].fileId)

\* C30: at every moment no two successful results of the results registry
\* have the same fileName
C30_ResultNamesDistinct ==
    \A i, j \in 1..Len(processedResults) :
        (/\ processedResults[i].success
         /\ processedResults[j].success
         /\ processedResults[i].fileName = processedResults[j].fileName) => i = j

C16_DownloadHasEveryResult ==
    /\ download.kind = "single" =>
           /\ Len(download.results) = 1
           /\ download.name = download.results[1].fileName
           /\ download.entries = <<>>
    /\ download.kind = "wrapper" =>
           /\ Len(download.results) >= 2
           /\ Len(download.entries) = Len(download.results)
           /\ \A k \in 1..Len(download.results) :
                  \E e \in 1..Len(download.entries) :
                      /\ download.entries[e].name = download.results[k].fileName
                      /\ download.entries[e].fileId = download.results[k].fileId

NoSuccess(results) == \A k \in 1..Len(results) : ~results[k].success

\* C17: with no successful result downloadAllResults shows its warning,
\* downloads nothing and builds no archive, and createArchive returns an
\* archive only for a list with a successful result
C17_NothingToAggregate ==
    [][/\ (NoSuccess(processedResults) /\ DownloadAllResults) =>
              /\ notice'.kind = "nothing_to_download"
              /\ download' = NoDownload
              /\ archive' = archive
       /\ \A zipResults \in {<<>>, FailedOnly, processedResults} :
              NoSuccess(zipResults) => ~createArchive(zipResults).ok
       /\ (archive' # archive /\ archive'.ok) =>
              /\ ~NoSuccess(processedResults)
              /\ archive'.entries # <<>>]_vars

C17_Witness ==
    /\ notice.kind = "nothing_to_download"
    /\ download = NoDownload
    /\ archive.called
    /\ ~archive.ok
    /\ Len(selectedFiles) = 2
    /\ \A k \in 1..2 : fileObjs[selectedFiles[k]].status = "error"

\* the output names of the files of the registry
RegistryOutputNames == {fileObjs[selectedFiles[k]].outputName : k \in 1..Len(selectedFiles)}

\* C27: after any additions and removals with no pipeline running, the
\* output names of the N files of the registry are the numbers 1..N, padded
\* with zeros to one width, with .zip: no gap and no repeat
C27_OutputNamesAreOneToN ==
    LET N == Len(selectedFiles)
    IN  \E width \in 1..4 :
            /\ RegistryOutputNames = {PadStart(ToStr(k), width) \o ".zip" : k \in 1..N}
            /\ Cardinality(RegistryOutputNames) = N

(***************************************************************************)
(* Claims on generateMultipleZips (SpecJobs)                               *)
(***************************************************************************)
\* C23: generateMultipleZips starts a job (increments currentJobs) only in a
\* state where currentJobs < maxConcurrentJobs, whatever the interleaving of
\* the calls on the ZipGenerator at their suspension points
C23_JobStartsBelowLimit ==
    [][currentJobs' = currentJobs + 1 => currentJobs < maxConcurrentJobs]_vars

(***************************************************************************)
(* Claims on parseEpub (SpecParse)                                         *)
(***************************************************************************)
\* the job of processBatch on the archive has passed the checks on the parse
\* result
ParseSettled == parseJob.pc \in {"zip", "failed", "done"}

\* the failure reasons parseEpub reports
ParseErrors == {"cannot_open", "unreadable_entry", "missing_container"}

\* the entries of the archive that are image files by name
ImageEntries == {k \in 1..Len(epub.entries) :
                    ~epub.entries[k].dir /\ isImageFile(epub.entries[k].path)}

\* C24: a file whose archive cannot be opened or lacks META-INF/container.xml
\* fails with a parse error, gets status error and stores no result, however
\* many images it holds; a missing or wrong mimetype entry does not fail the
\* parse; a file that parses and yields no image fails with the no-images error
C24_ParseFailureTaxonomy ==
    ParseSettled =>
        /\ (~epub.opens \/ ~epub.container) =>
               /\ parseJob.pc = "failed"
               /\ parseJob.status = "error"
               /\ parseJob.error \in ParseErrors
               /\ ~parseJob.stored
        /\ (epub.opens /\ epub.container /\ epub.mimetype \in {"missing", "wrong"}) =>
               parseResult.success
        /\ (parseResult.success /\ Len(parseResult.images) = 0) =>
               /\ parseJob.pc = "failed"
               /\ parseJob.status = "error"
               /\ parseJob.error = "no_images"
               /\ ~parseJob.stored

\* an archive with two image files and no META-INF/container.xml has failed
\* with the parse error
C24_Witness ==
    /\ epub.opens /\ ~epub.container /\ epub.mimetype = "right"
    /\ Cardinality(ImageEntries) = 2
    /\ parseJob.pc = "failed"
    /\ parseJob.error = "missing_container"

(***************************************************************************)
(* Claims on the settings of the ZipGenerator (SpecLevels)                 *)
(***************************************************************************)
\* C37: after every setCompressionLevel, setMaxConcurrentJobs and setConfig
\* call the ZipGenerator's compressionLevel is in 0..9 and its
\* maxConcurrentJobs is above 0, and after a setConfig call the two values of
\* the application's config are those of the ZipGenerator
C37_ConfigEqualsGenerator ==
    [][/\ compressionLevel' \in 0..9
       /\ maxConcurrentJobs' > 0
       /\ SetConfigKeys =>
              /\ config'.compressionLevel = compressionLevel'
              /\ config'.maxConcurrentTasks = maxConcurrentJobs']_vars

\* the ZipGenerator's values stay in their ranges whatever the setters get
SettingsInRange == compressionLevel \in 0..9 /\ maxConcurrentJobs > 0

(***************************************************************************)
(* Claims on the name mapping of the registry (SpecPreview)                *)
(***************************************************************************)
\* C36: a step that computes the name mapping (handleFilesAdded with
\* processFileNames and updateOutputNames after addFiles, or previewSorting)
\* keeps the entries of the registry in their order, and the id, name, size
\* and status of every file; previewSorting keeps the saved sortedFiles and
\* the file objects whole, and the list it is given reads the same afterwards
C36_OnlyOutputNamesChange ==
    [][(AddFiles \/ PreviewRegistry) =>
          /\ Len(selectedFiles') >= Len(selectedFiles)
          /\ SubSeq(selectedFiles', 1, Len(selectedFiles)) = selectedFiles
          /\ \A id \in 1..Len(fileObjs) :
                 /\ fileObjs'[id].name = fileObjs[id].name
                 /\ fileObjs'[id].size = fileObjs[id].size
                 /\ fileObjs'[id].status = fileObjs[id].status
          /\ PreviewRegistry =>
                 /\ sortedFiles' = sortedFiles
                 /\ fileObjs' = fileObjs
                 /\ allFiles(selectedFiles', fileObjs') = allFiles(selectedFiles, fileObjs)]_vars

\* ch1.epub was added behind the completed ch2.epub: the mapping put it
\* first, the registry keeps it second, and a preview has been computed
C36_Witness ==
    /\ selectedFiles = <<1, 2>>
    /\ fileObjs[1].name = "ch2.epub" /\ fileObjs[1].status = "completed"
    /\ fileObjs[2].name = "ch1.epub" /\ fileObjs[2].status = "waiting"
    /\ fileObjs[2].outputName = "001.zip"
    /\ Len(sortedFiles) = 2 /\ sortedFiles[1].id = 2
    /\ Len(preview) = 2 /\ preview[1].originalName = "ch1.epub"

C32_ProcessingUntilEnd == pipelines # <<>> => isProcessing

\* without destroy() a started pipeline eventually comes to the state in
\* which no pipeline runs and isProcessing is false
EveryPipelineEnds == (pipelines # <<>>) ~> (pipelines = <<>> /\ ~isProcessing)

(***************************************************************************)
(* Claims on generateMultipleZips with cleanup (SpecCleanup)               *)
(***************************************************************************)
\* C31: currentJobs is never negative, and it is 0 when every
\* generateMultipleZips call has returned, also when cleanup() is called
\* while jobs are in flight
C31_CurrentJobsNeverNegative ==
    /\ currentJobs >= 0
    /\ zipCalls = <<>> => currentJobs = 0

(***************************************************************************)
(* Claims on generateZipFromImages (SpecZip)                               *)
(***************************************************************************)
\* a name with _<counter> put in front of its last dot, or at its end when
\* it has no dot
InsertBeforeExtension(name, counter) ==
    IF LastIndexOfDot(name) < 0 THEN name \o "_" \o ToStr(counter)
    ELSE SubSeq(name, 1, LastIndexOfDot(name)) \o "_" \o ToStr(counter) \o
             SubSeq(name, LastIndexOfDot(name) + 1, Len(name))

EarlierEntries(i) == {zipEntries[k] : k \in 1..(i - 1)}

\* the smallest counter from 1 upward whose name no earlier entry has
FreeCounter(name, i) ==
    Min({c \in 1..(Len(zipImages) + 1) : InsertBeforeExtension(name, c) \notin EarlierEntries(i)})

\* C18: the entries of the archive are pairwise distinct, one per image added;
\* an image whose name no earlier entry has keeps it, any other gets its
\* name with _<counter> before the extension for the smallest free counter
C18_NoEntryOverwritten ==
    /\ zipStage = "compressing" => Len(zipEntries) = Len(zipImages)
    /\ \A i, j \in 1..Len(zipEntries) : i # j => zipEntries[i] # zipEntries[j]
    /\ \A i \in 1..Len(zipEntries) :
           zipEntries[i] =
               IF zipImages[i] \notin EarlierEntries(i) THEN zipImages[i]
               ELSE InsertBeforeExtension(zipImages[i], FreeCounter(zipImages[i], i))

(***************************************************************************)
(* Claims on the file selection (SpecSelect)                               *)
(***************************************************************************)
\* the name and the size of the entries of the file registry, in order
RegistryEntries ==
    [k \in 1..Len(selectedFiles) |->
        <<fileObjs[selectedFiles[k]].name, fileObjs[selectedFiles[k]].size>>]

\* the name ends with .epub in any case and the file is not empty
EpubNamedAndNotEmpty(file) ==
    /\ Len(file.name) >= 5
    /\ ToLowerCase(SubSeq(file.name, Len(file.name) - 4, Len(file.name))) = ".epub"
    /\ file.size # 0

\* the entries after the files of a selection from position k entered: a
\* file enters when it is named .epub, is not empty and no entry has its name
\* and size
RECURSIVE EntriesAfter(_, _, _)
EntriesAfter(files, k, entries) ==
    IF k > Len(files) THEN entries
    ELSE IF /\ EpubNamedAndNotEmpty(files[k])
            /\ \A j \in 1..Len(entries) : entries[j] # <<files[k].name, files[k].size>>
         THEN EntriesAfter(files, k + 1, Append(entries, <<files[k].name, files[k].size>>))
    ELSE EntriesAfter(files, k + 1, entries)

\* C19: a selected file enters the file registry exactly when its name ends
\* with .epub in any case, its size is not zero and no registry entry has its
\* name and size; its first bytes play no part, and the rejected files of a
\* selection do not keep the accepted ones out. Every step that does not
\* remove a file is a selection: after it the registry is the one before it,
\* followed by the files of the selection that meet the three conditions.
C19_AcceptedFilesEnter ==
    [][Len(selectedFiles') >= Len(selectedFiles) =>
          /\ SubSeq(selectedFiles', 1, Len(selectedFiles)) = selectedFiles
          /\ RegistryEntries' = EntriesAfter(selection', 1, RegistryEntries)]_vars

\* a selection of an empty file and of a file named .EPUB without a ZIP
\* signature has put the second into the empty registry
C19_Witness ==
    /\ selection = <<[name |-> "ch3.epub", size |-> 0, zip |-> TRUE],
                     [name |-> "ch2.EPUB", size |-> 2, zip |-> FALSE]>>
    /\ Len(fileObjs) = 1
    /\ RegistryEntries = <<(<<"ch2.EPUB", 2>>)>>
\* the lists of valid files that handleFileSelect hands to addFiles
ValidLists ==
    {[k \in 1..Len(validFilesOf(files)) |->
         [name |-> validFilesOf(files)[k].name, size |-> validFilesOf(files)[k].size]] :
        files \in CandidateSelections}

\* no two entries of the registry (ids, objs) have the same name and size
NoTwoAlike(ids, objs) ==
    \A i, j \in 1..Len(ids) :
        i # j => ~(/\ objs[ids[i]].name = objs[ids[j]].name
                   /\ objs[ids[i]].size = objs[ids[j]].size)

====
